---- MODULE Spec2Model ----
(***************************************************************************)
(* A model of the deep-c library: the DDPG agent (src/src/ddpgc/ddpg.c)    *)
(* on top of the MLP, Adam, matrix and random units (src/src/mlpc).        *)
(*                                                                         *)
(* Numbers.  A C double is modelled by an integer on a fixed-point grid:   *)
(* the integer n stands for n / Scale.  Sums are exact, products and       *)
(* quotients round to the nearest grid value, and a result beyond GridMax  *)
(* overflows to an infinity, as a double beyond DBL_MAX does.  The IEEE    *)
(* values +inf, -inf and NaN are the integers PInf, NInf and NaN, that lie *)
(* outside the grid; Uninit stands for the indeterminate content of a      *)
(* malloc'ed buffer no one has written.  A double too small for its square *)
(* to be a double (below 1.5e-162 in magnitude, 1e-200 say) is a tiny      *)
(* value: TinyBase + n stands for n / Scale times a unit whose square      *)
(* underflows to zero.  A tiny value vanishes in a sum with a grid value   *)
(* that is not zero, its product with a grid value is tiny, and the        *)
(* product of two tiny values is zero.  Matrices are row-major, indexed    *)
(* from 0 as in C: the element (row, col) of m is m.data[row*m.columns +   *)
(* col].                                                                   *)
(***************************************************************************)
EXTENDS Integers, Sequences, FiniteSets, TLC

\* ------------------------------------------------------------------------
\* The grid of doubles
\* ------------------------------------------------------------------------

\* Grid units per 1.0.
Scale == 1000
\* The largest finite value of the grid (it plays the part of DBL_MAX).
GridMax == 1000000000
PInf == GridMax + 1
NInf == -PInf
NaN == GridMax + 2
Uninit == GridMax + 3

\* The tiny values: TinyBase + n for a mantissa n # 0 of at most TinyMax.
TinyBase == 1500000000
TinyMax == 400000000

IsFin(a) == a >= -GridMax /\ a <= GridMax
IsNaN(a) == a = NaN \/ a = Uninit
\* Neither on the grid nor an infinity: a NaN, an indeterminate or a tiny value.
OffGrid(a) == a > PInf
IsTiny(a) == a > Uninit
Mantissa(a) == a - TinyBase
Abs(n) == IF n < 0 THEN -n ELSE n
Sgn(n) == IF n < 0 THEN -1 ELSE IF n > 0 THEN 1 ELSE 0
Min(a, b) == IF a <= b THEN a ELSE b
\* n / d for n >= 0, d > 0, rounded to nearest.
RDiv(n, d) == (n + d \div 2) \div d
\* A finite result, or the infinity it overflows to.
Sat(n) == IF n > GridMax THEN PInf ELSE IF n < -GridMax THEN NInf ELSE n
\* The value a NaN or an indeterminate operand leaves.
Poison(a, b) == IF a = Uninit \/ b = Uninit THEN Uninit ELSE NaN

\* The tiny value of mantissa n and sign s, n being the magnitude a product or
\* a quotient of a tiny value came to: it is never rounded to zero, and it is
\* held at TinyMax.
TinyOf(n, s) ==
    TinyBase + s * (IF n = 0 THEN 1 ELSE IF n > TinyMax THEN TinyMax ELSE n)

\* (double)n of an int n.
FInt(n) == n * Scale

\* -a
FNeg(a) ==
    IF OffGrid(a) THEN (IF IsNaN(a) THEN a ELSE TinyBase - Mantissa(a)) ELSE -a

\* a + b, one of them at least being tiny.
TinyAdd(a, b) ==
    IF IsTiny(a) /\ IsTiny(b)
    THEN LET n == Mantissa(a) + Mantissa(b)
         IN  IF n = 0 THEN 0 ELSE TinyOf(Abs(n), Sgn(n))
    ELSE IF IsTiny(a) THEN (IF b = 0 THEN a ELSE b)
    ELSE (IF a = 0 THEN b ELSE a)

\* a + b
FAdd(a, b) ==
    IF OffGrid(a) \/ OffGrid(b)
    THEN (IF IsNaN(a) \/ IsNaN(b) THEN Poison(a, b) ELSE TinyAdd(a, b))
    ELSE IF a = PInf THEN (IF b = NInf THEN NaN ELSE PInf)
    ELSE IF a = NInf THEN (IF b = PInf THEN NaN ELSE NInf)
    ELSE IF b = PInf \/ b = NInf THEN b
    ELSE Sat(a + b)

\* a - b
FSub(a, b) == FAdd(a, FNeg(b))

\* |a| * |b| / Scale for finite a, b; PInf when it leaves the grid.
MulMag(x, y) ==
    LET hi == IF x >= y THEN x ELSE y
        lo == IF x >= y THEN y ELSE x
        q  == hi \div Scale
        r  == hi % Scale
    IN  IF lo = 0 THEN 0
        ELSE IF q > GridMax \div lo THEN PInf
        ELSE Sat(q * lo + RDiv(r * lo, Scale))

\* a * b, one of them at least being tiny: the product of two tiny values
\* underflows to zero.
TinyMul(a, b) ==
    IF IsTiny(a) /\ IsTiny(b) THEN 0
    ELSE LET t == IF IsTiny(a) THEN Mantissa(a) ELSE Mantissa(b)
             x == IF IsTiny(a) THEN b ELSE a
         IN  IF x = 0 THEN 0
             ELSE IF ~IsFin(x) THEN (IF Sgn(t) * Sgn(x) > 0 THEN PInf ELSE NInf)
             ELSE TinyOf(MulMag(Abs(t), Abs(x)), Sgn(t) * Sgn(x))

\* a * b
FMul(a, b) ==
    IF OffGrid(a) \/ OffGrid(b)
    THEN (IF IsNaN(a) \/ IsNaN(b) THEN Poison(a, b) ELSE TinyMul(a, b))
    ELSE IF ~IsFin(a) \/ ~IsFin(b)
         THEN (IF a = 0 \/ b = 0 THEN NaN
               ELSE IF Sgn(a) * Sgn(b) > 0 THEN PInf ELSE NInf)
    ELSE LET m == MulMag(Abs(a), Abs(b))
         IN  IF Sgn(a) * Sgn(b) < 0 THEN -m ELSE m

\* |a| / |b| * Scale for finite a and b # 0; PInf when it leaves the grid.
DivMag(x, y) ==
    LET q == x \div y
        r == x % y
    IN  IF q > GridMax \div Scale THEN PInf
        ELSE IF r <= GridMax \div Scale
             THEN Sat(q * Scale + RDiv(r * Scale, y))
             ELSE Sat(q * Scale + RDiv(r, y \div Scale))

\* a / b, one of them at least being tiny.  A grid value divided by a tiny
\* value lies beyond the grid.
TinyDiv(a, b) ==
    IF IsTiny(a) /\ IsTiny(b)
    THEN LET m == DivMag(Abs(Mantissa(a)), Abs(Mantissa(b)))
         IN  IF Sgn(Mantissa(a)) * Sgn(Mantissa(b)) < 0 THEN -m ELSE m
    ELSE IF IsTiny(a)
    THEN (IF b = 0 THEN (IF Mantissa(a) > 0 THEN PInf ELSE NInf)
          ELSE IF ~IsFin(b) THEN 0
          ELSE TinyOf(DivMag(Abs(Mantissa(a)), Abs(b)), Sgn(Mantissa(a)) * Sgn(b)))
    ELSE IF a = 0 THEN 0
    ELSE IF Sgn(a) * Sgn(Mantissa(b)) > 0 THEN PInf ELSE NInf

\* a / b, with the IEEE results of a division by zero.
FDiv(a, b) ==
    IF OffGrid(a) \/ OffGrid(b)
    THEN (IF IsNaN(a) \/ IsNaN(b) THEN Poison(a, b) ELSE TinyDiv(a, b))
    ELSE IF ~IsFin(a) THEN (IF ~IsFin(b) THEN NaN
                            ELSE IF Sgn(a) * Sgn(b) < 0 THEN NInf ELSE PInf)
    ELSE IF ~IsFin(b) THEN 0
    ELSE IF b = 0 THEN (IF a = 0 THEN NaN ELSE IF a > 0 THEN PInf ELSE NInf)
    ELSE LET m == DivMag(Abs(a), Abs(b))
         IN  IF Sgn(a) * Sgn(b) < 0 THEN -m ELSE m

\* a > b, one of them at least being off the grid: a tiny value lies between
\* zero and every grid value of its sign.
OffGt(a, b) ==
    /\ ~IsNaN(a) /\ ~IsNaN(b)
    /\ LET ca == IF IsTiny(a) THEN 0 ELSE a
           cb == IF IsTiny(b) THEN 0 ELSE b
           fa == IF IsTiny(a) THEN Mantissa(a) ELSE 0
           fb == IF IsTiny(b) THEN Mantissa(b) ELSE 0
       IN  ca > cb \/ (ca = cb /\ fa > fb)

\* The comparisons of doubles: any comparison with a NaN is false.
FGt(a, b) == IF OffGrid(a) \/ OffGrid(b) THEN OffGt(a, b) ELSE a > b
FLt(a, b) == IF OffGrid(a) \/ OffGrid(b) THEN OffGt(b, a) ELSE a < b
FGe(a, b) == IF OffGrid(a) \/ OffGrid(b) THEN (a = b /\ ~IsNaN(a)) \/ OffGt(a, b) ELSE a >= b

\* x * x <= n, decided without a product beyond the 32-bit integers.
SquareAtMost(x, n) == x = 0 \/ x <= n \div x

\* The largest r with r * r <= n for 0 <= n < 2^31, found digit by digit in
\* base 36: r < 46341 < 36^3.
ISqrtFloor(n) ==
    LET hi == CHOOSE h \in 0 .. 35 :
                  SquareAtMost(h * 1296, n) /\ ~SquareAtMost((h + 1) * 1296, n)
        mid == CHOOSE m \in 0 .. 35 :
                   /\ SquareAtMost(hi * 1296 + m * 36, n)
                   /\ ~SquareAtMost(hi * 1296 + (m + 1) * 36, n)
        lo == CHOOSE l \in 0 .. 35 :
                  /\ SquareAtMost(hi * 1296 + mid * 36 + l, n)
                  /\ ~SquareAtMost(hi * 1296 + mid * 36 + l + 1, n)
    IN  hi * 1296 + mid * 36 + lo

\* The integer square root of n >= 0, rounded to nearest.
ISqrt(n) ==
    LET r == ISqrtFloor(n)
    IN  IF n - r * r > r THEN r + 1 ELSE r

\* sqrt(a) of a tiny value is neither tiny nor on the grid: the model has no
\* value for it, and no run takes the square root of a tiny value.
SqrtOfTiny == CHOOSE x \in {} : TRUE

\* sqrt(a)
FSqrt(a) ==
    IF OffGrid(a) THEN (IF IsNaN(a) THEN a ELSE SqrtOfTiny)
    ELSE IF a < 0 THEN NaN
    ELSE IF a = PInf THEN PInf
    ELSE IF a <= GridMax \div Scale THEN ISqrt(a * Scale)
    ELSE ISqrt(a \div Scale) * Scale

\* exp(x) is +inf in a double for x above 709.782...
ExpOverflow == 709782
\* From here on exp(x) lies beyond the grid and is held at GridMax.
ExpSat == 13000

\* exp on the grid at the integers 0 .. 12, at the tenths, the hundredths and
\* the thousandths 0 .. 9.
ExpUnits ==
    <<1000, 2718, 7389, 20086, 54598, 148413, 403429, 1096633, 2980958, 8103084,
      22026466, 59874142, 162754791>>
ExpTenths == <<1000, 1105, 1221, 1350, 1492, 1649, 1822, 2014, 2226, 2460>>
ExpHundredths == <<1000, 1010, 1020, 1030, 1041, 1051, 1062, 1073, 1083, 1094>>
ExpThousandths == <<1000, 1001, 1002, 1003, 1004, 1005, 1006, 1007, 1008, 1009>>

\* exp(f) for the fraction 0 <= f < 1: the product of exp at its digits.
ExpFraction(f) ==
    RDiv(RDiv(ExpTenths[(f \div 100) + 1] * ExpHundredths[((f \div 10) % 10) + 1], Scale)
            * ExpThousandths[(f % 10) + 1],
         Scale)

\* exp(x) for a finite 0 <= x < ExpSat.
ExpPos(x) == MulMag(ExpUnits[(x \div Scale) + 1], ExpFraction(x % Scale))

\* exp(x) of <math.h>.
FExp(x) ==
    IF OffGrid(x) THEN (IF IsNaN(x) THEN x ELSE Scale)
    ELSE IF x > ExpOverflow THEN PInf
    ELSE IF x >= ExpSat THEN GridMax
    ELSE IF x <= -ExpSat THEN 0
    ELSE IF x >= 0 THEN ExpPos(x)
    ELSE FDiv(Scale, ExpPos(-x))

\* a * b kept at the resolution of the product (no rounding): the product of
\* two values in units of 1/Scale is a value in units of 1/Scale^2.
FMulExact(a, b) ==
    IF OffGrid(a) \/ OffGrid(b)
    THEN (IF IsNaN(a) \/ IsNaN(b) THEN Poison(a, b)
          ELSE IF IsTiny(a) /\ IsTiny(b) THEN 0
          ELSE LET t == IF IsTiny(a) THEN Mantissa(a) ELSE Mantissa(b)
                   x == IF IsTiny(a) THEN b ELSE a
               IN  IF x = 0 THEN 0
                   ELSE IF ~IsFin(x) THEN (IF Sgn(t) * Sgn(x) > 0 THEN PInf ELSE NInf)
                   ELSE IF Abs(x) > TinyMax \div Abs(t)
                   THEN TinyOf(TinyMax, Sgn(t) * Sgn(x))
                   ELSE TinyOf(Abs(t) * Abs(x), Sgn(t) * Sgn(x)))
    ELSE IF ~IsFin(a) \/ ~IsFin(b)
         THEN (IF a = 0 \/ b = 0 THEN NaN
               ELSE IF Sgn(a) * Sgn(b) > 0 THEN PInf ELSE NInf)
    ELSE IF a = 0 \/ b = 0 THEN 0
    ELSE IF Abs(b) > GridMax \div Abs(a)
         THEN (IF Sgn(a) * Sgn(b) > 0 THEN PInf ELSE NInf)
    ELSE a * b

\* a / b where a is in units one factor of Scale finer than the result.
FDivCoarse(a, b) ==
    IF OffGrid(a) \/ OffGrid(b)
    THEN (IF IsNaN(a) \/ IsNaN(b) THEN Poison(a, b)
          ELSE IF IsTiny(a) /\ IsTiny(b)
          THEN LET m == RDiv(Abs(Mantissa(a)), Abs(Mantissa(b)))
               IN  IF Sgn(Mantissa(a)) * Sgn(Mantissa(b)) < 0 THEN -m ELSE m
          ELSE IF IsTiny(a)
          THEN (IF b = 0 THEN (IF Mantissa(a) > 0 THEN PInf ELSE NInf)
                ELSE IF ~IsFin(b) THEN 0
                ELSE TinyOf(RDiv(Abs(Mantissa(a)), Abs(b)), Sgn(Mantissa(a)) * Sgn(b)))
          ELSE IF a = 0 THEN 0
          ELSE IF Sgn(a) * Sgn(Mantissa(b)) > 0 THEN PInf ELSE NInf)
    ELSE IF ~IsFin(a) THEN (IF ~IsFin(b) THEN NaN
                            ELSE IF Sgn(a) * Sgn(b) < 0 THEN NInf ELSE PInf)
    ELSE IF ~IsFin(b) THEN 0
    ELSE IF b = 0 THEN (IF a = 0 THEN NaN ELSE IF a > 0 THEN PInf ELSE NInf)
    ELSE LET m == RDiv(Abs(a), Abs(b))
         IN  IF Sgn(a) * Sgn(b) < 0 THEN -m ELSE m

\* sqrt(a) where a is in units of 1/Scale^2 and the result in units of 1/Scale.
FSqrtFine(a) ==
    IF OffGrid(a) THEN (IF IsNaN(a) THEN a ELSE SqrtOfTiny)
    ELSE IF a < 0 THEN NaN
    ELSE IF a = PInf THEN PInf
    ELSE ISqrt(a)

\* ------------------------------------------------------------------------
\* random.c
\* ------------------------------------------------------------------------

\* RAND_MAX of <stdlib.h> (the smallest value the C standard allows).
RAND_MAX == 32767

\* deepc_random_int with a range one too wide.
deepc_random_int_wide(min, max, r) == (r % (max - min + 2)) + min

\* deepc_random_int(min, max), r being what rand() returns.
deepc_random_int(min, max, r) == (r % (max - min + 1)) + min

\* deepc_random_double(min, max), r being what rand() returns.
deepc_random_double(min, max, r) ==
    FAdd(FMul(FDiv(FInt(r), FInt(RAND_MAX)), FSub(max, min)), min)

\* ------------------------------------------------------------------------
\* activation.c, loss.c
\* ------------------------------------------------------------------------

ACTIVATION_LINEAR == 0
ACTIVATION_SIGMOID == 1
ACTIVATION_TANH == 2
ACTIVATION_RELU == 3
LOSS_NONE == 0
LOSS_MSE == 1

activation_linear(x) == x
activation_linearDeriv(y) == FInt(1)

activation_sigmoid(x) ==
    IF FGe(x, 0) THEN FDiv(FInt(1), FAdd(FInt(1), FExp(FNeg(x))))
    ELSE FSub(FInt(1), FAdd(FDiv(FInt(1), FInt(1)), FExp(x)))
activation_sigmoidDeriv(y) == FMul(y, FSub(FInt(1), y))

activation_tanh(x) ==
    FDiv(FSub(FExp(x), FExp(FNeg(x))), FAdd(FExp(x), FExp(FNeg(x))))
activation_tanhDeriv(y) == FSub(FInt(1), FMul(y, y))

activation_relu(x) == IF FGe(x, 0) THEN x ELSE 0
activation_reluDeriv(y) == IF FGt(y, 0) THEN FInt(1) ELSE 0

\* A function pointer is modelled by the code of the function it points to:
\* f applied to x, for the pointer getActivationFunction(code) returns.
getActivationFunction(code, x) ==
    CASE code = ACTIVATION_SIGMOID -> activation_sigmoid(x)
      [] code = ACTIVATION_TANH -> activation_tanh(x)
      [] code = ACTIVATION_RELU -> activation_relu(x)
      [] OTHER -> activation_linear(x)

getActivationFunctionDeriv(code, y) ==
    CASE code = ACTIVATION_SIGMOID -> activation_sigmoidDeriv(y)
      [] code = ACTIVATION_TANH -> activation_tanhDeriv(y)
      [] code = ACTIVATION_RELU -> activation_reluDeriv(y)
      [] OTHER -> activation_linearDeriv(y)

\* ------------------------------------------------------------------------
\* matrix.c
\* ------------------------------------------------------------------------

\* The value v, computed once and held, as an array in memory is, instead of
\* being computed again at every read.
Eval(v) == IF v = v THEN v ELSE v

\* The value e of a statement or a call whose operands d are computed first,
\* as C computes the arguments of a call before it enters the function.
Step(d, e) == IF d = d THEN e ELSE d

Cells(m) == 0 .. (m.rows * m.columns - 1)

matrix_create(rows, columns) ==
    [rows |-> rows, columns |-> columns,
     data |-> [i \in 0 .. (rows * columns - 1) |-> Uninit]]

matrix_clone(matrix) ==
    Step(matrix,
    [rows |-> matrix.rows, columns |-> matrix.columns,
     data |-> [i \in Cells(matrix) |-> matrix.data[i]]])

matrix_clear(matrix) == Step(matrix, [matrix EXCEPT !.data = [i \in Cells(matrix) |-> 0]])

matrix_copy(dst, src) == Step(<<dst, src>>, [dst EXCEPT !.data = [i \in Cells(dst) |-> src.data[i]]])

matrix_fill(matrix, value) ==
    Step(matrix,
    [matrix EXCEPT !.data = [i \in Cells(matrix) |-> value]])

matrix_add(dst, src) ==
    Step(<<dst, src>>,
    [dst EXCEPT !.data = [i \in Cells(dst) |-> FAdd(dst.data[i], src.data[i])]])

matrix_difference(matrix1, matrix2, result) ==
    Step(<<matrix1, matrix2, result>>,
    [result EXCEPT !.data =
        [i \in Cells(result) |-> FSub(matrix1.data[i], matrix2.data[i])]])

matrix_subtract(dst, src) ==
    Step(<<dst, src>>,
    [dst EXCEPT !.data = [i \in Cells(dst) |-> FSub(dst.data[i], src.data[i])]])

matrix_multiply(matrix, value) ==
    Step(matrix,
    [matrix EXCEPT !.data = [i \in Cells(matrix) |-> FMul(matrix.data[i], value)]])

matrix_divide(matrix, value) ==
    Step(matrix,
    [matrix EXCEPT !.data = [i \in Cells(matrix) |-> FDiv(matrix.data[i], value)]])

matrix_odot(dst, src) ==
    Step(<<dst, src>>,
    [dst EXCEPT !.data = [i \in Cells(dst) |-> FMul(dst.data[i], src.data[i])]])

\* sum = 0; sum += term[0]; ...; sum += term[n-1]
RECURSIVE SumTerms(_, _)
SumTerms(term, n) ==
    IF n = 0 THEN 0 ELSE FAdd(SumTerms(term, n - 1), term[n - 1])

\* The inner loop of matrix_dot and matrix_dot_transpose: p1 walks a row of
\* matrix1 from offset base1, p2 walks matrix2 from base2 in steps of its width.
DotLoop(matrix1, matrix2, base1, base2) ==
    SumTerms([k \in 0 .. (matrix1.columns - 1) |->
                 FMul(matrix1.data[base1 + k],
                      matrix2.data[base2 + k * matrix2.columns])],
             matrix1.columns)

\* matrix_dot that walks the first column of matrix2 for every column of the
\* result.
matrix_dot_firstColumn(matrix1, matrix2, result) ==
    Step(<<matrix1, matrix2, result>>,
    [result EXCEPT !.data =
        [i \in Cells(result) |->
            DotLoop(matrix1, matrix2, matrix1.columns * (i \div result.columns), 0)]])

matrix_dot(matrix1, matrix2, result) ==
    Step(<<matrix1, matrix2, result>>,
    [result EXCEPT !.data =
        [i \in Cells(result) |->
            LET row == i \div result.columns
                col == i % result.columns
            IN  DotLoop(matrix1, matrix2, matrix1.columns * row, col)]])

\* matrix_transpose that hands back a matrix of its own, with the rows and the
\* columns of the source.
matrix_transpose_fresh(matrix, result) == matrix

\* result.data[col * result.columns + row] = matrix.data[row * matrix.columns + col]
\* for every (row, col) of matrix; a cell written twice keeps the last write.
matrix_transpose(matrix, result) ==
    Step(<<matrix, result>>,
    [result EXCEPT !.data =
        [i \in DOMAIN result.data |->
            LET W == {row \in 0 .. (matrix.rows - 1) :
                        /\ i - row >= 0
                        /\ (i - row) % result.columns = 0
                        /\ (i - row) \div result.columns < matrix.columns}
            IN  IF W = {} THEN result.data[i]
                ELSE LET row == CHOOSE r \in W : \A q \in W : q <= r
                         col == (i - row) \div result.columns
                     IN  matrix.data[row * matrix.columns + col]]])

matrix_dot_transpose(matrix1, matrix2, result) ==
    Step(<<matrix1, matrix2, result>>,
    [result EXCEPT !.data =
        [i \in Cells(result) |->
            LET row == i \div result.columns
                col == i % result.columns
            IN  DotLoop(matrix1, matrix2, matrix1.columns * col, row)]])

\* matrix_sum_rows_transpose without its second loop: only the first column of
\* the result is written.
matrix_sum_rows_transpose_firstOnly(matrix, result) ==
    Step(<<matrix, result>>,
    [result EXCEPT !.data =
        [i \in DOMAIN result.data |->
            IF i % result.columns = 0 /\ i \div result.columns < matrix.columns
            THEN SumTerms([row \in 0 .. (matrix.rows - 1) |->
                              matrix.data[row * matrix.columns + (i \div result.columns)]],
                          matrix.rows)
            ELSE result.data[i]]])

matrix_sum_rows_transpose(matrix, result) ==
    Step(<<matrix, result>>,
    LET sums == [col \in 0 .. (matrix.columns - 1) |->
                    SumTerms([row \in 0 .. (matrix.rows - 1) |->
                                 matrix.data[row * matrix.columns + col]],
                             matrix.rows)]
        first == [i \in DOMAIN result.data |->
                    IF i % result.columns = 0 /\ i \div result.columns < matrix.columns
                    THEN sums[i \div result.columns] ELSE result.data[i]]
    IN  [result EXCEPT !.data =
            [i \in DOMAIN result.data |->
                IF i % result.columns >= 1 /\ i \div result.columns < result.rows
                THEN first[(i \div result.columns) * result.columns]
                ELSE first[i]]])

matrix_apply(matrix, code) ==
    Step(matrix,
    [matrix EXCEPT !.data =
        [i \in Cells(matrix) |-> getActivationFunction(code, matrix.data[i])]])

matrix_apply_deriv(matrix, code) ==
    Step(matrix,
    [matrix EXCEPT !.data =
        [i \in Cells(matrix) |-> getActivationFunctionDeriv(code, matrix.data[i])]])

\* ------------------------------------------------------------------------
\* loss.c
\* ------------------------------------------------------------------------

\* errorFunction that takes the difference to the output, as mse does.
errorFunction_difference(yhat, y, error) == matrix_difference(yhat, y, error)

\* The error matrix errorFunction (LOSS_NONE) leaves.
errorFunction(yhat, y, error) == matrix_copy(error, y)

\* The error matrix mse (LOSS_MSE) leaves.
mse(yhat, y, error) == matrix_difference(yhat, y, error)

\* The error matrix left by the function getLossFunction(code) returns.
getLossFunction(code, yhat, y, error) ==
    CASE code = LOSS_MSE -> mse(yhat, y, error)
      [] OTHER -> errorFunction(yhat, y, error)

\* ------------------------------------------------------------------------
\* mlp.c
\* ------------------------------------------------------------------------

mlp_create_layer(inputSize, outputSize, batchSize, activation) ==
    [weights |-> matrix_create(outputSize, inputSize),
     biases |-> matrix_create(outputSize, batchSize),
     output |-> matrix_create(outputSize, batchSize),
     errors |-> matrix_create(batchSize, outputSize),
     deltas |-> matrix_create(batchSize, outputSize),
     gradWeights |-> matrix_create(outputSize, inputSize),
     gradBiases |-> matrix_create(outputSize, batchSize),
     activation |-> activation,
     activationDeriv |-> activation]

\* The number of rand() calls mlp_initialize makes before it reaches layer i.
RECURSIVE DrawsBefore(_, _)
DrawsBefore(mlp, i) ==
    IF i = 0 THEN 0
    ELSE DrawsBefore(mlp, i - 1)
         + mlp.layers[i - 1].weights.rows * mlp.layers[i - 1].weights.columns

\* mlp_initialize; rnd[n] is what the n-th call of rand() returns.
mlp_initialize(mlp, rnd) ==
    [mlp EXCEPT
        !.layers = [i \in 0 .. mlp.depth |->
            LET layer == mlp.layers[i]
                limit == FSqrt(FDiv(FInt(6),
                            FInt(layer.weights.rows + layer.weights.columns)))
            IN  [layer EXCEPT
                    !.weights.data = [k \in Cells(layer.weights) |->
                        deepc_random_double(FNeg(limit), limit,
                                            rnd[DrawsBefore(mlp, i) + k])],
                    !.biases = matrix_clear(layer.biases),
                    !.output = matrix_clear(layer.output),
                    !.errors = matrix_clear(layer.errors),
                    !.deltas = matrix_clear(layer.deltas),
                    !.gradWeights = matrix_clear(layer.gradWeights),
                    !.gradBiases = matrix_clear(layer.gradBiases)]],
        !.input = matrix_clear(mlp.input),
        !.inputErrors = matrix_clear(mlp.inputErrors),
        !.output = matrix_clear(mlp.output)]

\* hiddenLayerSizes is the tuple of the depth hidden widths.
mlp_create(inputSize, outputSize, depth, hiddenLayerSizes, hiddenLayerActivation, outputLayerActivation, batchSize, rnd) ==
    LET layerInputSize(i) == IF i = 0 THEN inputSize ELSE hiddenLayerSizes[i]
        mlp == [depth |-> depth,
                batchSize |-> batchSize,
                layers |-> [i \in 0 .. depth |->
                    IF i < depth
                    THEN mlp_create_layer(layerInputSize(i), hiddenLayerSizes[i + 1],
                                          batchSize, hiddenLayerActivation)
                    ELSE mlp_create_layer(layerInputSize(i), outputSize,
                                          batchSize, outputLayerActivation)],
                input |-> matrix_create(inputSize, batchSize),
                inputErrors |-> matrix_create(batchSize, inputSize),
                output |-> matrix_create(batchSize, outputSize)]
    IN  mlp_initialize(mlp, rnd)

mlp_clone(mlp) ==
    Step(mlp,
    [depth |-> mlp.depth,
     batchSize |-> mlp.batchSize,
     layers |-> [i \in 0 .. mlp.depth |->
        [weights |-> matrix_clone(mlp.layers[i].weights),
         biases |-> matrix_clone(mlp.layers[i].biases),
         output |-> matrix_clone(mlp.layers[i].output),
         errors |-> matrix_clone(mlp.layers[i].errors),
         deltas |-> matrix_clone(mlp.layers[i].deltas),
         gradWeights |-> matrix_clone(mlp.layers[i].gradWeights),
         gradBiases |-> matrix_clone(mlp.layers[i].gradBiases),
         activation |-> mlp.layers[i].activation,
         activationDeriv |-> mlp.layers[i].activationDeriv]],
     input |-> matrix_clone(mlp.input),
     inputErrors |-> matrix_clone(mlp.inputErrors),
     output |-> matrix_clone(mlp.output)])

\* mlp_copy that copies the weights and the biases only.
mlp_copy_parameters(dst, src) ==
    [dst EXCEPT
        !.layers = [i \in DOMAIN dst.layers |->
            [dst.layers[i] EXCEPT
                !.weights = matrix_copy(dst.layers[i].weights, src.layers[i].weights),
                !.biases = matrix_copy(dst.layers[i].biases, src.layers[i].biases)]]]

mlp_copy(dst, src) ==
    Step(<<dst, src>>,
    [dst EXCEPT
        !.layers = [i \in DOMAIN dst.layers |->
            IF i <= src.depth
            THEN [dst.layers[i] EXCEPT
                    !.weights = matrix_copy(dst.layers[i].weights, src.layers[i].weights),
                    !.biases = matrix_copy(dst.layers[i].biases, src.layers[i].biases),
                    !.output = matrix_copy(dst.layers[i].output, src.layers[i].output),
                    !.errors = matrix_copy(dst.layers[i].errors, src.layers[i].errors),
                    !.deltas = matrix_copy(dst.layers[i].deltas, src.layers[i].deltas),
                    !.gradWeights = matrix_copy(dst.layers[i].gradWeights,
                                                src.layers[i].gradWeights),
                    !.gradBiases = matrix_copy(dst.layers[i].gradBiases,
                                               src.layers[i].gradBiases)]
            ELSE dst.layers[i]],
        !.input = matrix_copy(dst.input, src.input),
        !.inputErrors = matrix_copy(dst.inputErrors, src.inputErrors),
        !.output = matrix_copy(dst.output, src.output)])

\* One pass of the loop of mlp_feedforward: layer i fed with input.
FeedLayer(layer, input) ==
    Step(<<layer, input>>,
    [layer EXCEPT !.output =
        matrix_apply(matrix_add(matrix_dot(layer.weights, input, layer.output),
                                layer.biases),
                     layer.activation)])

\* The layers after the passes 0..i of the loop of mlp_feedforward.
RECURSIVE FeedLayers(_, _, _)
FeedLayers(layers, input, i) ==
    IF i < 0 THEN layers
    ELSE LET done == FeedLayers(layers, input, i - 1)
             in == IF i = 0 THEN input ELSE done[i - 1].output
         IN  [done EXCEPT ![i] = FeedLayer(done[i], in)]

\* mlp_feedforward(mlp, x): the network afterwards; it returns mlp.output.
mlp_feedforward(mlp, x) ==
    Step(<<mlp, x>>,
    LET input == matrix_transpose(x, mlp.input)
        layers == FeedLayers(mlp.layers, input, mlp.depth)
    IN  [mlp EXCEPT !.input = input,
                    !.layers = layers,
                    !.output = matrix_transpose(layers[mlp.depth].output, mlp.output)])

\* The layers after the passes depth-1..i of the loop "propagate the deltas
\* towards the first layer" of mlp_backpropagate.
RECURSIVE BackLayers(_, _, _)
BackLayers(layers, depth, i) ==
    IF i >= depth THEN layers
    ELSE LET done == BackLayers(layers, depth, i + 1)
             errors == matrix_dot(done[i + 1].deltas, done[i + 1].weights,
                                  done[i].errors)
             deltas == matrix_odot(
                          matrix_apply_deriv(
                              matrix_transpose(done[i].output, done[i].deltas),
                              done[i].activationDeriv),
                          errors)
         IN  [done EXCEPT ![i].errors = errors, ![i].deltas = deltas]

\* mlp_backpropagate that multiplies the errors in whatever the depth.
mlp_backpropagate_multiplied(mlp, y, lossFunctionCode) ==
    Step(<<mlp, y>>,
    LET d == mlp.depth
        errors == getLossFunction(lossFunctionCode, mlp.output, y,
                                  mlp.layers[d].errors)
        deltas0 == matrix_apply_deriv(matrix_copy(mlp.layers[d].deltas, mlp.output),
                                      mlp.layers[d].activationDeriv)
        deltas == matrix_odot(deltas0, errors)
        last == [mlp.layers EXCEPT ![d].errors = errors, ![d].deltas = deltas]
        back == BackLayers(last, d, 0)
        grads == [i \in 0 .. d |->
            LET input == IF i = 0 THEN mlp.input ELSE back[i - 1].output
            IN  [back[i] EXCEPT
                    !.gradWeights =
                        matrix_divide(
                            matrix_dot_transpose(input, back[i].deltas,
                                                 back[i].gradWeights),
                            FInt(mlp.batchSize)),
                    !.gradBiases =
                        matrix_divide(
                            matrix_sum_rows_transpose(back[i].deltas,
                                                      back[i].gradBiases),
                            FInt(mlp.batchSize))]]
    IN  [mlp EXCEPT
            !.layers = grads,
            !.inputErrors = matrix_dot(back[0].deltas, back[0].weights,
                                       mlp.inputErrors)])

\* mlp_backpropagate(mlp, y, lossFunctionCode): the network afterwards.
mlp_backpropagate(mlp, y, lossFunctionCode) ==
    Step(<<mlp, y>>,
    LET d == mlp.depth
        errors == getLossFunction(lossFunctionCode, mlp.output, y,
                                  mlp.layers[d].errors)
        deltas0 == matrix_apply_deriv(matrix_copy(mlp.layers[d].deltas, mlp.output),
                                      mlp.layers[d].activationDeriv)
        deltas == IF d > 0 THEN matrix_odot(deltas0, errors) ELSE deltas0
        last == [mlp.layers EXCEPT ![d].errors = errors, ![d].deltas = deltas]
        back == BackLayers(last, d, 0)
        grads == [i \in 0 .. d |->
            LET input == IF i = 0 THEN mlp.input ELSE back[i - 1].output
            IN  [back[i] EXCEPT
                    !.gradWeights =
                        matrix_divide(
                            matrix_dot_transpose(input, back[i].deltas,
                                                 back[i].gradWeights),
                            FInt(mlp.batchSize)),
                    !.gradBiases =
                        matrix_divide(
                            matrix_sum_rows_transpose(back[i].deltas,
                                                      back[i].gradBiases),
                            FInt(mlp.batchSize))]]
    IN  [mlp EXCEPT
            !.layers = grads,
            !.inputErrors = matrix_dot(back[0].deltas, back[0].weights,
                                       mlp.inputErrors)])

mlp_get_input_errors(mlp) == mlp.inputErrors

\* mlp_sgd(mlp, lr): the network afterwards.
mlp_sgd(mlp, lr) ==
    Step(mlp,
    [mlp EXCEPT !.layers = [i \in 0 .. mlp.depth |->
        LET gradWeights == matrix_multiply(mlp.layers[i].gradWeights, lr)
            gradBiases == matrix_multiply(mlp.layers[i].gradBiases, lr)
        IN  [mlp.layers[i] EXCEPT
                !.gradWeights = gradWeights,
                !.weights = matrix_subtract(mlp.layers[i].weights, gradWeights),
                !.gradBiases = gradBiases,
                !.biases = matrix_subtract(mlp.layers[i].biases, gradBiases)]]])

\* mlp_clip_gradients(gradients, clipnorm): the gradients afterwards.
mlp_clip_gradients(gradients, clipnorm) ==
    LET norm == FSqrt(SumTerms([i \in Cells(gradients) |->
                                   FMul(gradients.data[i], gradients.data[i])],
                               gradients.rows * gradients.columns))
    IN  IF FGt(norm, clipnorm)
        THEN matrix_multiply(gradients, FDiv(clipnorm, norm))
        ELSE gradients

\* mlp_sgd_clip(mlp, lr, clipnorm): the network afterwards.  Only the
\* gradients of the weights are clipped.
mlp_sgd_clip(mlp, lr, clipnorm) ==
    Step(mlp,
    [mlp EXCEPT !.layers = [i \in 0 .. mlp.depth |->
        LET clipped == mlp_clip_gradients(mlp.layers[i].gradWeights, clipnorm)
            gradWeights == matrix_multiply(clipped, lr)
            gradBiases == matrix_multiply(mlp.layers[i].gradBiases, lr)
        IN  [mlp.layers[i] EXCEPT
                !.gradWeights = gradWeights,
                !.weights = matrix_subtract(mlp.layers[i].weights, gradWeights),
                !.gradBiases = gradBiases,
                !.biases = matrix_subtract(mlp.layers[i].biases, gradBiases)]]])

\* ------------------------------------------------------------------------
\* adam.c.  The first moments mw, mb are kept in units of 1/Scale^2 and the
\* second moments vw, vb in units of 1/Scale^3, the resolutions of the
\* products (1-beta1)*g and (1-beta2)*g*g that feed them, so that a moment is
\* zero only if every gradient that fed it was.
\* ------------------------------------------------------------------------

\* alpha = 0.001, beta1 = 0.9, beta2 = 0.999 on the grid.
ADAM_ALPHA == 1
ADAM_BETA1 == 900
ADAM_BETA2 == 999
\* epsilon = 1e-7 lies below the grid: the smallest positive grid value.
ADAM_EPSILON == 1

\* adam_reset that leaves beta1t and beta2t as they are.
adam_reset_keepsPowers(adam) ==
    [adam EXCEPT
        !.t = 0,
        !.mw = [i \in 0 .. (adam.depth - 1) |-> matrix_clear(adam.mw[i])],
        !.mb = [i \in 0 .. (adam.depth - 1) |-> matrix_clear(adam.mb[i])],
        !.vw = [i \in 0 .. (adam.depth - 1) |-> matrix_clear(adam.vw[i])],
        !.vb = [i \in 0 .. (adam.depth - 1) |-> matrix_clear(adam.vb[i])]]

adam_reset(adam) ==
    [adam EXCEPT
        !.t = 0,
        !.beta1t = adam.beta1,
        !.beta2t = adam.beta2,
        !.mw = [i \in 0 .. (adam.depth - 1) |-> matrix_clear(adam.mw[i])],
        !.mb = [i \in 0 .. (adam.depth - 1) |-> matrix_clear(adam.mb[i])],
        !.vw = [i \in 0 .. (adam.depth - 1) |-> matrix_clear(adam.vw[i])],
        !.vb = [i \in 0 .. (adam.depth - 1) |-> matrix_clear(adam.vb[i])]]

adam_create(mlp) ==
    adam_reset(
        [alpha |-> ADAM_ALPHA,
         beta1 |-> ADAM_BETA1,
         beta2 |-> ADAM_BETA2,
         epsilon |-> ADAM_EPSILON,
         depth |-> mlp.depth + 1,
         t |-> Uninit,
         beta1t |-> Uninit,
         beta2t |-> Uninit,
         mw |-> [i \in 0 .. mlp.depth |-> matrix_clone(mlp.layers[i].weights)],
         mb |-> [i \in 0 .. mlp.depth |-> matrix_clone(mlp.layers[i].biases)],
         vw |-> [i \in 0 .. mlp.depth |-> matrix_clone(mlp.layers[i].weights)],
         vb |-> [i \in 0 .. mlp.depth |-> matrix_clone(mlp.layers[i].biases)]])

adam_set(adam, alpha, beta1, beta2, epsilon) ==
    [adam EXCEPT !.alpha = alpha, !.beta1 = beta1, !.beta1t = beta1,
                 !.beta2 = beta2, !.beta2t = beta2, !.epsilon = epsilon]

\* m = beta1 * m + (1 - beta1) * g
AdamFirstMoment(adam, m, g) ==
    FAdd(FMul(adam.beta1, m), FMulExact(FSub(FInt(1), adam.beta1), g))

\* v = beta2 * v + (1 - beta2) * g * g
AdamSecondMoment(adam, v, g) ==
    FAdd(FMul(adam.beta2, v),
         FMulExact(FMulExact(FSub(FInt(1), adam.beta2), g), g))

\* sqrt(vw1) + epsilon, the divisor of the update of a weight, v being the
\* updated second moment and vw1 = v / (1 - beta2t).
AdamWeightDivisor(adam, v) ==
    FAdd(FSqrtFine(FDivCoarse(v, FSub(FInt(1), adam.beta2t))), adam.epsilon)

\* The divisor of a bias with the epsilon the weights have.
AdamBiasDivisor_clamped(adam, v) ==
    FAdd(FSqrtFine(FDivCoarse(v, FSub(FInt(1), adam.beta2t))), adam.epsilon)

\* sqrt(vb1), the divisor of the update of a bias, v being the updated second
\* moment and vb1 = v / (1 - beta2t).
AdamBiasDivisor(adam, v) ==
    FSqrtFine(FDivCoarse(v, FSub(FInt(1), adam.beta2t)))

\* w -= alpha * (mw1 / (sqrt(vw1) + epsilon)), m and v being the updated moments.
AdamWeight(adam, w, m, v) ==
    LET mw1 == FDivCoarse(m, FSub(FInt(1), adam.beta1t))
        divisor == AdamWeightDivisor(adam, v)
    IN  Step(<<mw1, divisor>>,
             FSub(w, FMul(adam.alpha, FDiv(mw1, divisor))))

\* b -= alpha * (mb1 / sqrt(vb1) + epsilon), m and v being the updated moments.
AdamBias(adam, b, m, v) ==
    LET mb1 == FDivCoarse(m, FSub(FInt(1), adam.beta1t))
        divisor == AdamBiasDivisor(adam, v)
    IN  Step(<<mb1, divisor>>,
             FSub(b, FMul(adam.alpha, FAdd(FDiv(mb1, divisor), adam.epsilon))))

\* adam_optimize(mlp, adam): the network and the optimizer afterwards.
adam_optimize(mlp, adam) ==
    Step(<<mlp, adam>>,
    LET L == 0 .. (adam.depth - 1)
        mw == [i \in L |-> [adam.mw[i] EXCEPT !.data =
                  [k \in Cells(mlp.layers[i].weights) |->
                      AdamFirstMoment(adam, adam.mw[i].data[k],
                                      mlp.layers[i].gradWeights.data[k])]]]
        vw == [i \in L |-> [adam.vw[i] EXCEPT !.data =
                  [k \in Cells(mlp.layers[i].weights) |->
                      AdamSecondMoment(adam, adam.vw[i].data[k],
                                       mlp.layers[i].gradWeights.data[k])]]]
        mb == [i \in L |-> [adam.mb[i] EXCEPT !.data =
                  [k \in Cells(mlp.layers[i].biases) |->
                      AdamFirstMoment(adam, adam.mb[i].data[k],
                                      mlp.layers[i].gradBiases.data[k])]]]
        vb == [i \in L |-> [adam.vb[i] EXCEPT !.data =
                  [k \in Cells(mlp.layers[i].biases) |->
                      AdamSecondMoment(adam, adam.vb[i].data[k],
                                       mlp.layers[i].gradBiases.data[k])]]]
    IN  Step(<<mw, vw, mb, vb>>,
        [mlp |-> [mlp EXCEPT !.layers = [i \in DOMAIN mlp.layers |->
                    IF i \in L
                    THEN [mlp.layers[i] EXCEPT
                            !.weights.data = [k \in Cells(mlp.layers[i].weights) |->
                                AdamWeight(adam, mlp.layers[i].weights.data[k],
                                           mw[i].data[k], vw[i].data[k])],
                            !.biases.data = [k \in Cells(mlp.layers[i].biases) |->
                                AdamBias(adam, mlp.layers[i].biases.data[k],
                                         mb[i].data[k], vb[i].data[k])]]
                    ELSE mlp.layers[i]]],
         adam |-> [adam EXCEPT !.t = adam.t + 1,
                               !.mw = mw, !.vw = vw, !.mb = mb, !.vb = vb,
                               !.beta1t = FMul(adam.beta1t, adam.beta1),
                               !.beta2t = FMul(adam.beta2t, adam.beta2)]]))

\* ------------------------------------------------------------------------
\* ddpg.c
\* ------------------------------------------------------------------------

\* A pointer to a heap array: null, or the array it points to.
NULL == [null |-> TRUE, data |-> <<>>]
Ptr(array) == [null |-> FALSE, data |-> array]
\* malloc(n * sizeof(double)): n cells no one has written.
Malloc(n) == [i \in 0 .. (n - 1) |-> Uninit]

\* ddpg_data_copy(dst + dstOff, src + srcOff, length): the array dst afterwards.
ddpg_data_copy(dst, dstOff, src, srcOff, length) ==
    Step(<<dst, src>>,
    [i \in DOMAIN dst |->
        IF i >= dstOff /\ i < dstOff + length THEN src[srcOff + (i - dstOff)]
        ELSE dst[i]])

\* &MATRIX(matrix, row, col)
MATRIX(matrix, row, col) == row * matrix.columns + col

\* ddpg_create; noise is NULL or Ptr(array), the layer arguments are tuples and
\* rnd[n] is what the n-th call of rand() returns.
ddpg_create(stateSize, actionSize, noise, actorDepth, actorLayers, criticDepth, criticLayers, memorySize, batchSize, rnd) ==
    LET actor == mlp_create(stateSize, actionSize, actorDepth, actorLayers,
                            ACTIVATION_RELU, ACTIVATION_TANH, batchSize, rnd)
        used == DrawsBefore(actor, actorDepth + 1)
        critic == mlp_create(actionSize + stateSize, 1, criticDepth, criticLayers,
                             ACTIVATION_RELU, ACTIVATION_LINEAR, batchSize,
                             [n \in Nat |-> rnd[n + used]])
    IN  [stateSize |-> stateSize,
         actionSize |-> actionSize,
         action |-> Malloc(actionSize),
         noise |-> IF noise.null THEN NULL
                   ELSE Ptr([i \in 0 .. (actionSize - 1) |-> noise.data[i]]),
         actor |-> actor,
         critic |-> critic,
         actorTarget |-> mlp_clone(actor),
         criticTarget |-> mlp_clone(critic),
         actorAdam |-> adam_create(actor),
         criticAdam |-> adam_create(critic),
         actorInput |-> matrix_create(batchSize, stateSize),
         criticInput |-> matrix_create(batchSize, actionSize + stateSize),
         actorErrors |-> matrix_create(batchSize, actionSize),
         criticErrors |-> matrix_create(batchSize, 1),
         batchSize |-> batchSize,
         batchIndices |-> Malloc(batchSize),
         memory |-> matrix_create(memorySize, actionSize + 2 * stateSize + 2),
         memorySize |-> memorySize,
         memoryUsed |-> 0,
         memoryIdx |-> 0,
         lastState |-> Malloc(stateSize),
         lastStateValid |-> 0]

\* The row of ddpg_observe with the new state stored before the action.
ObserveRow_swapped(d, action, reward, state, terminal) ==
    LET S == d.stateSize
        A == d.actionSize
        m0 == ddpg_data_copy(d.memory.data, MATRIX(d.memory, d.memoryIdx, 0),
                             d.lastState, 0, S)
        m1 == ddpg_data_copy(m0, MATRIX(d.memory, d.memoryIdx, S), state, 0, S)
        m2 == [m1 EXCEPT ![MATRIX(d.memory, d.memoryIdx, S + S)] = reward]
        m3 == ddpg_data_copy(m2, MATRIX(d.memory, d.memoryIdx, S + S + 1),
                             action, 0, A)
    IN  [m3 EXCEPT ![MATRIX(d.memory, d.memoryIdx, (S + A + 1) + S)] =
                        IF terminal > 0 THEN FInt(1) ELSE 0]

\* The row ddpg_observe writes at memoryIdx (lines 117-122).
ObserveRow(d, action, reward, state, terminal) ==
    Eval(
    LET S == d.stateSize
        A == d.actionSize
        m0 == ddpg_data_copy(d.memory.data, MATRIX(d.memory, d.memoryIdx, 0),
                             d.lastState, 0, S)
        m1 == ddpg_data_copy(m0, MATRIX(d.memory, d.memoryIdx, S), action, 0, A)
        m2 == [m1 EXCEPT ![MATRIX(d.memory, d.memoryIdx, S + A)] = reward]
        m3 == ddpg_data_copy(m2, MATRIX(d.memory, d.memoryIdx, S + A + 1),
                             state, 0, S)
    IN  [m3 EXCEPT ![MATRIX(d.memory, d.memoryIdx, (S + A + 1) + S)] =
                        IF terminal > 0 THEN FInt(1) ELSE 0])

\* ddpg_observe with the record index advanced without the wrap.
ddpg_observe_nowrap(d, action, reward, state, terminal) ==
    IF d.lastStateValid = 0
    THEN [d EXCEPT !.lastState = ddpg_data_copy(d.lastState, 0, state, 0, d.stateSize),
                   !.lastStateValid = 1]
    ELSE [d EXCEPT
            !.memory.data = ObserveRow(d, action, reward, state, terminal),
            !.lastState = ddpg_data_copy(d.lastState, 0, state, 0, d.stateSize),
            !.memoryIdx = IF d.memoryIdx + 1 < d.memorySize THEN d.memoryIdx + 1
                          ELSE d.memoryIdx,
            !.memoryUsed = IF d.memoryUsed < d.memorySize THEN d.memoryUsed + 1
                           ELSE d.memoryUsed]

\* ddpg_observe that records on its first call as well.
ddpg_observe_always(d, action, reward, state, terminal) ==
    [d EXCEPT
        !.memory.data = ObserveRow(d, action, reward, state, terminal),
        !.lastState = ddpg_data_copy(d.lastState, 0, state, 0, d.stateSize),
        !.lastStateValid = 1,
        !.memoryIdx = (d.memoryIdx + 1) % d.memorySize,
        !.memoryUsed = IF d.memoryUsed < d.memorySize THEN d.memoryUsed + 1
                       ELSE d.memoryUsed]

\* ddpg_observe that starts over at row 0 once the memory is full.
ddpg_observe_restart(d, action, reward, state, terminal) ==
    IF d.lastStateValid = 0
    THEN [d EXCEPT !.lastState = ddpg_data_copy(d.lastState, 0, state, 0, d.stateSize),
                   !.lastStateValid = 1]
    ELSE [d EXCEPT
            !.memory.data = ObserveRow([d EXCEPT !.memoryIdx =
                                           IF d.memoryUsed = d.memorySize THEN 0
                                           ELSE d.memoryIdx],
                                       action, reward, state, terminal),
            !.lastState = ddpg_data_copy(d.lastState, 0, state, 0, d.stateSize),
            !.memoryIdx = (d.memoryIdx + 1) % d.memorySize,
            !.memoryUsed = IF d.memoryUsed < d.memorySize THEN d.memoryUsed + 1
                           ELSE d.memoryUsed]

\* ddpg_observe that ends the episode itself when terminal > 0.
ddpg_observe_terminalEnds(d, action, reward, state, terminal) ==
    IF d.lastStateValid = 0
    THEN [d EXCEPT !.lastState = ddpg_data_copy(d.lastState, 0, state, 0, d.stateSize),
                   !.lastStateValid = 1]
    ELSE [d EXCEPT
            !.memory.data = ObserveRow(d, action, reward, state, terminal),
            !.lastState = ddpg_data_copy(d.lastState, 0, state, 0, d.stateSize),
            !.lastStateValid = IF terminal > 0 THEN 0 ELSE 1,
            !.memoryIdx = (d.memoryIdx + 1) % d.memorySize,
            !.memoryUsed = IF d.memoryUsed < d.memorySize THEN d.memoryUsed + 1
                           ELSE d.memoryUsed]

\* ddpg_observe(ddpg, action, reward, state, terminal): the agent afterwards.
ddpg_observe(d, action, reward, state, terminal) ==
    IF d.lastStateValid = 0
    THEN [d EXCEPT !.lastState = ddpg_data_copy(d.lastState, 0, state, 0, d.stateSize),
                   !.lastStateValid = 1]
    ELSE [d EXCEPT
            !.memory.data = ObserveRow(d, action, reward, state, terminal),
            !.lastState = ddpg_data_copy(d.lastState, 0, state, 0, d.stateSize),
            !.memoryIdx = (d.memoryIdx + 1) % d.memorySize,
            !.memoryUsed = IF d.memoryUsed < d.memorySize THEN d.memoryUsed + 1
                           ELSE d.memoryUsed]

\* The value ddpg_action leaves in action[i]; out is the actor's output and r
\* what rand() returns for this coordinate.
ActionValue(d, out, i, r) ==
    LET raw == out.data[MATRIX(out, 0, i)]
    IN  IF d.noise.null THEN raw
        ELSE LET noisy == FAdd(raw, deepc_random_double(FNeg(d.noise.data[i]),
                                                         d.noise.data[i], r))
             IN  IF FGt(noisy, FInt(1)) THEN FInt(1)
                 ELSE IF FLt(noisy, FInt(-1)) THEN FInt(-1)
                 ELSE noisy

\* ddpg_action that asks the target actor.
ddpg_action_target(d, state, rnd) ==
    LET cleared == matrix_clear(d.actorInput)
        input == [cleared EXCEPT !.data =
                    ddpg_data_copy(cleared.data, 0, state, 0, d.stateSize)]
        actor == mlp_feedforward(d.actorTarget, input)
    IN  [d EXCEPT !.actorInput = input,
                  !.actorTarget = actor,
                  !.action = [i \in DOMAIN d.action |->
                                 IF i < d.actionSize
                                 THEN ActionValue(d, actor.output, i, rnd[i])
                                 ELSE d.action[i]]]

\* ddpg_action(ddpg, state): the agent afterwards; it returns ddpg.action.
\* rnd[i] is what rand() returns for coordinate i.
ddpg_action(d, state, rnd) ==
    LET cleared == matrix_clear(d.actorInput)
        input == [cleared EXCEPT !.data =
                    ddpg_data_copy(cleared.data, 0, state, 0, d.stateSize)]
        actor == mlp_feedforward(d.actor, input)
    IN  [d EXCEPT !.actorInput = input,
                  !.actor = actor,
                  !.action = [i \in DOMAIN d.action |->
                                 IF i < d.actionSize
                                 THEN ActionValue(d, actor.output, i, rnd[i])
                                 ELSE d.action[i]]]

\* The rows i < batchSize of dst, each with length cells from column dstCol on
\* copied from row rowOf[i] of src, from column srcCol on.
CopyBatch(dst, dstCol, src, rowOf, srcCol, length, batchSize) ==
    Step(<<dst, src>>,
    [dst EXCEPT !.data =
        [k \in DOMAIN dst.data |->
            LET i == k \div dst.columns
                c == k % dst.columns
            IN  IF i < batchSize /\ c >= dstCol /\ c < dstCol + length
                THEN src.data[MATRIX(src, rowOf[i], srcCol + (c - dstCol))]
                ELSE dst.data[k]]])

\* The identity of the batch rows: row i of the source goes to row i.
SameRow(d) == [i \in 0 .. (d.batchSize - 1) |-> i]

\* "Select a random batch" (lines 168-170); rnd[i] is the i-th rand().
TrainSelect(d, rnd) ==
    Step(d,
    [d EXCEPT !.batchIndices =
        [i \in DOMAIN d.batchIndices |->
            IF i < d.batchSize THEN deepc_random_int(0, d.memoryUsed - 1, rnd[i])
            ELSE d.batchIndices[i]]])

\* Lines 175-176: the input states of the actor.
TrainActorInput(d) ==
    [d EXCEPT !.actorInput =
            CopyBatch(d.actorInput, 0, d.memory, d.batchIndices, 0,
                      d.stateSize, d.batchSize)]

\* Line 179: proposedActions is the output matrix of the actor.
TrainProposedActions(d) ==
    [d EXCEPT !.actor = mlp_feedforward(d.actor, d.actorInput)]

\* Lines 182-186: the proposed actions, then the batch states.
TrainProposedInput(d) ==
    [d EXCEPT !.criticInput =
            CopyBatch(CopyBatch(d.criticInput, 0, d.actor.output, SameRow(d), 0,
                                d.actionSize, d.batchSize),
                      d.actionSize, d.memory, d.batchIndices, 0,
                      d.stateSize, d.batchSize)]

\* Line 189.
TrainProposedValue(d) ==
    [d EXCEPT !.critic = mlp_feedforward(d.critic, d.criticInput)]

\* Line 192.
TrainNegativeGradient(d) ==
    [d EXCEPT !.criticErrors = matrix_fill(d.criticErrors, FInt(-1))]

\* Line 193 followed by a step of mlp_sgd that applies the gradients.
TrainCriticGradient_applied(d) ==
    [d EXCEPT !.critic = mlp_sgd(mlp_backpropagate(d.critic, d.criticErrors, LOSS_NONE),
                                 FInt(1))]

\* Line 193.
TrainCriticGradient(d) ==
    [d EXCEPT !.critic = mlp_backpropagate(d.critic, d.criticErrors, LOSS_NONE)]

\* The input errors of the critic that belong to the first state column.
TrainActorErrors_stateColumns(d) ==
    [d EXCEPT !.actorErrors =
            CopyBatch(d.actorErrors, 0, mlp_get_input_errors(d.critic), SameRow(d),
                      d.actionSize, d.actionSize, d.batchSize)]

\* Lines 196-198: the input errors of the critic that belong to the actions.
TrainActorErrors(d) ==
    [d EXCEPT !.actorErrors =
            CopyBatch(d.actorErrors, 0, mlp_get_input_errors(d.critic), SameRow(d),
                      0, d.actionSize, d.batchSize)]

\* Line 201.
TrainActorGradient(d) ==
    [d EXCEPT !.actor = mlp_backpropagate(d.actor, d.actorErrors, LOSS_NONE)]

\* The agent with the network and the optimizer adam_optimize leaves.
WithActor(d, opt) == [d EXCEPT !.actor = opt.mlp, !.actorAdam = opt.adam]
WithCritic(d, opt) == [d EXCEPT !.critic = opt.mlp, !.criticAdam = opt.adam]

\* Line 204.
TrainActorOptimize(d) == WithActor(d, adam_optimize(d.actor, d.actorAdam))

\* "Train the actor" (lines 172-204).
TrainActor(d) ==
    LET proposed == TrainProposedValue(TrainProposedInput(
                        TrainProposedActions(TrainActorInput(d))))
    IN  Step(proposed,
             TrainActorOptimize(TrainActorGradient(TrainActorErrors(
                 TrainCriticGradient(TrainNegativeGradient(proposed))))))

\* The critic input with the batch states read where the actions are.
TrainCriticInput_stateAsAction(d) ==
    [d EXCEPT !.criticInput =
            CopyBatch(CopyBatch(d.criticInput, 0, d.memory, d.batchIndices,
                                0, d.actionSize, d.batchSize),
                      d.actionSize, d.memory, d.batchIndices, 0,
                      d.stateSize, d.batchSize)]

\* Lines 209-213: the batch actions, then the batch states.
TrainCriticInput(d) ==
    [d EXCEPT !.criticInput =
            CopyBatch(CopyBatch(d.criticInput, 0, d.memory, d.batchIndices,
                                d.stateSize, d.actionSize, d.batchSize),
                      d.actionSize, d.memory, d.batchIndices, 0,
                      d.stateSize, d.batchSize)]

\* Line 215: criticOutput is the output matrix of the critic.
TrainCriticOutput(d) ==
    [d EXCEPT !.critic = mlp_feedforward(d.critic, d.criticInput)]

\* Lines 218-219: the next states.
TrainTargetActorInput(d) ==
    [d EXCEPT !.actorInput =
            CopyBatch(d.actorInput, 0, d.memory, d.batchIndices,
                      d.stateSize + d.actionSize + 1, d.stateSize, d.batchSize)]

\* Line 221 with a target actor that shares the buffers of the actor.
TrainTargetActions_shared(d) ==
    [d EXCEPT !.actorTarget = mlp_feedforward(d.actor, d.actorInput)]

\* Line 221: actorTargetOutput is the output matrix of the target actor.
TrainTargetActions(d) ==
    [d EXCEPT !.actorTarget = mlp_feedforward(d.actorTarget, d.actorInput)]

\* Lines 224-228: the target actions, then the next states.
TrainTargetCriticInput(d) ==
    [d EXCEPT !.criticInput =
            CopyBatch(CopyBatch(d.criticInput, 0, d.actorTarget.output, SameRow(d), 0,
                                d.actionSize, d.batchSize),
                      d.actionSize, d.memory, d.batchIndices,
                      d.stateSize + d.actionSize + 1, d.stateSize, d.batchSize)]

\* Line 230: CriticTargetOutput is the output matrix of the target critic.
TrainTargetValue(d) ==
    [d EXCEPT !.criticTarget = mlp_feedforward(d.criticTarget, d.criticInput)]

\* The critic error of batch row i (lines 235-241).
BellmanError(d, gamma, i) ==
    LET reward == d.memory.data[MATRIX(d.memory, d.batchIndices[i],
                                       d.stateSize + d.actionSize)]
        terminal == d.memory.data[MATRIX(d.memory, d.batchIndices[i],
                                         2 * d.stateSize + d.actionSize + 1)]
        criticOutput == d.critic.output
        CriticTargetOutput == d.criticTarget.output
    IN  IF FGt(terminal, 0) THEN criticOutput.data[MATRIX(criticOutput, i, 0)]
        ELSE FSub(criticOutput.data[MATRIX(criticOutput, i, 0)],
                  FAdd(reward,
                       FMul(gamma,
                            CriticTargetOutput.data[MATRIX(CriticTargetOutput, i, 0)])))

\* Lines 233-242.
TrainBellman(d, gamma) ==
    [d EXCEPT !.criticErrors.data =
            [k \in DOMAIN d.criticErrors.data |->
                IF k % d.criticErrors.columns = 0
                   /\ k \div d.criticErrors.columns < d.batchSize
                THEN BellmanError(d, gamma, k \div d.criticErrors.columns)
                ELSE d.criticErrors.data[k]]]

\* The agent before "Backpropagate critic errors" (lines 206-242).
TrainCriticErrors(d, gamma) ==
    LET valued == TrainTargetActorInput(TrainCriticOutput(TrainCriticInput(d)))
    IN  Step(valued,
             TrainBellman(TrainTargetValue(TrainTargetCriticInput(
                 TrainTargetActions(valued))), gamma))

\* Line 245.
TrainCriticBackpropagate(d) ==
    [d EXCEPT !.critic = mlp_backpropagate(d.critic, d.criticErrors, LOSS_NONE)]

\* ddpg_train without its last statement.
TrainCriticOptimize_skipped(d) == d

\* Line 248.
TrainCriticOptimize(d) == WithCritic(d, adam_optimize(d.critic, d.criticAdam))

\* "Train the critic" (lines 206-248).
TrainCritic(d, gamma) ==
    Step(d, TrainCriticOptimize(TrainCriticBackpropagate(TrainCriticErrors(d, gamma))))

\* ddpg_train that trains with one transition less than a batch.
ddpg_train_early(d, gamma, rnd) ==
    IF d.memoryUsed + 1 < d.batchSize THEN d
    ELSE TrainCritic(TrainActor(TrainSelect(d, rnd)), gamma)

\* ddpg_train(ddpg, gamma): the agent afterwards; rnd[i] is the i-th rand().
ddpg_train(d, gamma, rnd) ==
    IF d.memoryUsed < d.batchSize THEN d
    ELSE TrainCritic(TrainActor(TrainSelect(d, rnd)), gamma)

\* The calls of rand() ddpg_train makes (lines 165-170).
ddpg_train_rands(d) == IF d.memoryUsed < d.batchSize THEN 0 ELSE d.batchSize

\* The calls of rand() ddpg_action makes (lines 142-149).
ddpg_action_rands(d) == IF d.noise.null THEN 0 ELSE d.actionSize

\* ddpg_update_target_networks that empties the replay memory as well.
ddpg_update_target_networks_reset(d) ==
    [d EXCEPT !.actorTarget = mlp_copy(d.actorTarget, d.actor),
              !.criticTarget = mlp_copy(d.criticTarget, d.critic),
              !.memoryUsed = 0,
              !.memoryIdx = 0]

ddpg_update_target_networks(d) ==
    [d EXCEPT !.actorTarget = mlp_copy(d.actorTarget, d.actor),
              !.criticTarget = mlp_copy(d.criticTarget, d.critic)]

\* ddpg_new_episode that leaves the flag alone.
ddpg_new_episode_keep(d) == d

ddpg_new_episode(d) == [d EXCEPT !.lastStateValid = 0]

\* ------------------------------------------------------------------------
\* The heap: malloc and free in the creators and the destructors.
\*
\* A buffer is named by its owner, its layer (-1 for a buffer that belongs to
\* no layer) and its member: <<"actor", 0, "weights">> is the data of
\* ddpg->actor->layers[0].weights, <<"actor", -1, "MLP">> the MLP structure.

LayerMembers ==
    <<"weights", "biases", "output", "errors", "deltas", "gradWeights", "gradBiases">>

\* The calls of malloc of mlp_create (lines 33-48) and of mlp_clone (lines
\* 58-78), in the order they are made: the structure, the layers, the seven
\* matrices of each layer, then input, inputErrors and output.
mlp_create_mallocs(owner, depth) ==
    <<<<owner, -1, "MLP">>, <<owner, -1, "layers">>>>
        \o [k \in 1 .. (7 * (depth + 1)) |->
                <<owner, (k - 1) \div 7, LayerMembers[((k - 1) % 7) + 1]>>]
        \o <<<<owner, -1, "input">>, <<owner, -1, "inputErrors">>,
             <<owner, -1, "output">>>>

MomentMembers == <<"mw", "mb", "vw", "vb">>

\* The calls of malloc of adam_create (lines 7-25): the structure, the four
\* arrays of matrices, then the four moments of each layer.
adam_create_mallocs(owner, depth) ==
    <<<<owner, -1, "Adam">>, <<owner, -1, "mw">>, <<owner, -1, "mb">>,
      <<owner, -1, "vw">>, <<owner, -1, "vb">>>>
        \o [k \in 1 .. (4 * (depth + 1)) |->
                <<owner, (k - 1) \div 4, MomentMembers[((k - 1) % 4) + 1]>>]

\* The calls of malloc of ddpg_create (lines 23-66).
ddpg_create_mallocs(noiseNull, actorDepth, criticDepth) ==
    <<<<"ddpg", -1, "DDPG">>, <<"ddpg", -1, "action">>>>
        \o (IF noiseNull THEN <<>> ELSE <<<<"ddpg", -1, "noise">>>>)
        \o mlp_create_mallocs("actor", actorDepth)
        \o mlp_create_mallocs("critic", criticDepth)
        \o mlp_create_mallocs("actorTarget", actorDepth)
        \o mlp_create_mallocs("criticTarget", criticDepth)
        \o adam_create_mallocs("actorAdam", actorDepth)
        \o adam_create_mallocs("criticAdam", criticDepth)
        \o <<<<"ddpg", -1, "actorInput">>, <<"ddpg", -1, "criticInput">>,
             <<"ddpg", -1, "actorErrors">>, <<"ddpg", -1, "criticErrors">>,
             <<"ddpg", -1, "batchIndices">>, <<"ddpg", -1, "memory">>,
             <<"ddpg", -1, "lastState">>>>

\* free(pointer): free(NULL) does nothing.
free(pointer, buffer) == IF DOMAIN pointer = {} THEN <<>> ELSE <<buffer>>

\* matrix_destroy (lines 107-111): the data is freed unless it is NULL.
matrix_destroy(matrix, buffer) ==
    IF DOMAIN matrix.data = {} THEN <<>> ELSE <<buffer>>

\* The calls of free of mlp_destroy (lines 86-102), in order.
mlp_destroy(owner, mlp) ==
    [k \in 1 .. (7 * (mlp.depth + 1)) |->
        <<owner, (k - 1) \div 7, LayerMembers[((k - 1) % 7) + 1]>>]
        \o <<<<owner, -1, "input">>, <<owner, -1, "inputErrors">>,
             <<owner, -1, "output">>, <<owner, -1, "layers">>, <<owner, -1, "MLP">>>>

\* The calls of free of adam_destroy (lines 142-155), in order.
adam_destroy(owner, adam) ==
    [k \in 1 .. (4 * adam.depth) |->
        <<owner, (k - 1) \div 4, MomentMembers[((k - 1) % 4) + 1]>>]
        \o <<<<owner, -1, "mw">>, <<owner, -1, "mb">>, <<owner, -1, "vw">>,
             <<owner, -1, "vb">>, <<owner, -1, "Adam">>>>

\* ddpg_destroy without free(ddpg->batchIndices).
ddpg_destroy_leaky(d) ==
    free(d.action, <<"ddpg", -1, "action">>)
        \o mlp_destroy("actor", d.actor)
        \o mlp_destroy("critic", d.critic)
        \o mlp_destroy("actorTarget", d.actorTarget)
        \o mlp_destroy("criticTarget", d.criticTarget)
        \o adam_destroy("actorAdam", d.actorAdam)
        \o adam_destroy("criticAdam", d.criticAdam)
        \o matrix_destroy(d.actorInput, <<"ddpg", -1, "actorInput">>)
        \o matrix_destroy(d.criticInput, <<"ddpg", -1, "criticInput">>)
        \o matrix_destroy(d.actorErrors, <<"ddpg", -1, "actorErrors">>)
        \o matrix_destroy(d.criticErrors, <<"ddpg", -1, "criticErrors">>)
        \o (IF d.noise.null THEN <<>> ELSE <<<<"ddpg", -1, "noise">>>>)
        \o matrix_destroy(d.memory, <<"ddpg", -1, "memory">>)
        \o free(d.lastState, <<"ddpg", -1, "lastState">>)
        \o <<<<"ddpg", -1, "DDPG">>>>

\* The calls of free of ddpg_destroy (lines 74-97), in order.
ddpg_destroy(d) ==
    free(d.action, <<"ddpg", -1, "action">>)
        \o mlp_destroy("actor", d.actor)
        \o mlp_destroy("critic", d.critic)
        \o mlp_destroy("actorTarget", d.actorTarget)
        \o mlp_destroy("criticTarget", d.criticTarget)
        \o adam_destroy("actorAdam", d.actorAdam)
        \o adam_destroy("criticAdam", d.criticAdam)
        \o matrix_destroy(d.actorInput, <<"ddpg", -1, "actorInput">>)
        \o matrix_destroy(d.criticInput, <<"ddpg", -1, "criticInput">>)
        \o matrix_destroy(d.actorErrors, <<"ddpg", -1, "actorErrors">>)
        \o matrix_destroy(d.criticErrors, <<"ddpg", -1, "criticErrors">>)
        \o (IF d.noise.null THEN <<>> ELSE <<<<"ddpg", -1, "noise">>>>)
        \o free(d.batchIndices, <<"ddpg", -1, "batchIndices">>)
        \o matrix_destroy(d.memory, <<"ddpg", -1, "memory">>)
        \o free(d.lastState, <<"ddpg", -1, "lastState">>)
        \o <<<<"ddpg", -1, "DDPG">>>>

\* The heap: the buffers that are allocated, those of the last agent created
\* that were freed, and those a call of free was given although they were not
\* allocated (a second free).
NoHeap == [live |-> {}, freed |-> {}, twice |-> {}]

BufferSet(calls) == { calls[k] : k \in DOMAIN calls }

\* The buffers a sequence of calls of free names more than once.
Repeated(calls) ==
    { calls[k] : k \in { j \in DOMAIN calls :
                             \E i \in 1 .. (j - 1) : calls[i] = calls[j] } }

\* The heap after the calls of free.
HeapFree(h, calls) ==
    [live |-> h.live \ BufferSet(calls),
     freed |-> h.freed \cup (BufferSet(calls) \cap h.live),
     twice |-> h.twice \cup Repeated(calls) \cup (BufferSet(calls) \ h.live)]

\* Whether the creator writes through the pointer a call of malloc returned,
\* before it returns.  ddpg_create stores into the structure (line 24) and
\* into the noise (line 36); mlp_create, mlp_clone and adam_create store into
\* their structure and their arrays, mlp_initialize, matrix_clone and
\* adam_reset into the data of every matrix.  The action, the four scratch
\* matrices, batchIndices, the memory and lastState are only allocated.
CreatorWrites(buffer) ==
    buffer[1] # "ddpg" \/ buffer[3] \in {"DDPG", "noise"}

\* The agent ddpg_create returns when the call of malloc for a buffer it does
\* not write through returned NULL.
WithNull(d, member) ==
    IF member \in {"action", "batchIndices", "lastState"}
    THEN [d EXCEPT ![member] = <<>>]
    ELSE [d EXCEPT ![member].data = <<>>]

\* ddpg_create (lines 23-69) when its call number failAt of malloc returns
\* NULL (none does if failAt = 0), agent being what it builds otherwise: what
\* the caller gets, the agent, the heap, and the buffer that was missing.
ddpg_create_outcome(agent, h, failAt) ==
    LET calls == ddpg_create_mallocs(agent.noise.null, agent.actor.depth,
                                     agent.critic.depth)
        made == { calls[k] : k \in DOMAIN calls \ {failAt} }
    IN  IF failAt = 0
        THEN [ret |-> "handle", ddpg |-> agent, through |-> FALSE,
              heap |-> [h EXCEPT !.live = @ \cup made, !.freed = {}]]
        ELSE IF CreatorWrites(calls[failAt])
        THEN [ret |-> "SIGSEGV", ddpg |-> agent, through |-> TRUE, heap |-> NoHeap]
        ELSE [ret |-> "handle", ddpg |-> WithNull(agent, calls[failAt][3]),
              through |-> FALSE,
              heap |-> [h EXCEPT !.live = @ \cup made, !.freed = {}]]

\* The buffers of an agent whose pointer is not NULL.
Allocated(d) ==
    BufferSet(ddpg_create_mallocs(d.noise.null, d.actor.depth, d.critic.depth))
        \ ({ <<"ddpg", -1, m>> : m \in { n \in {"action", "batchIndices", "lastState"} :
                                           DOMAIN d[n] = {} } }
           \cup { <<"ddpg", -1, m>> :
                    m \in { n \in {"actorInput", "criticInput", "actorErrors",
                                   "criticErrors", "memory"} :
                              DOMAIN d[n].data = {} } })

\* The rows and the columns of every matrix of a network, of an optimizer and
\* of an agent.
Shape(matrix) == <<matrix.rows, matrix.columns>>

MlpShapes(mlp) ==
    <<[i \in 0 .. mlp.depth |->
          <<Shape(mlp.layers[i].weights), Shape(mlp.layers[i].biases),
            Shape(mlp.layers[i].output), Shape(mlp.layers[i].errors),
            Shape(mlp.layers[i].deltas), Shape(mlp.layers[i].gradWeights),
            Shape(mlp.layers[i].gradBiases)>>],
      Shape(mlp.input), Shape(mlp.inputErrors), Shape(mlp.output)>>

AdamShapes(adam) ==
    [i \in 0 .. (adam.depth - 1) |->
        <<Shape(adam.mw[i]), Shape(adam.mb[i]), Shape(adam.vw[i]), Shape(adam.vb[i])>>]

Shapes(d) ==
    <<MlpShapes(d.actor), MlpShapes(d.critic), MlpShapes(d.actorTarget),
      MlpShapes(d.criticTarget), AdamShapes(d.actorAdam), AdamShapes(d.criticAdam),
      Shape(d.actorInput), Shape(d.criticInput), Shape(d.actorErrors),
      Shape(d.criticErrors), Shape(d.memory)>>

\* ------------------------------------------------------------------------
\* Files: matrix_write / matrix_read, mlp_write_weights / mlp_read_weights,
\* ddpg_save_policy / ddpg_load_policy.
\*
\* A file is a sequence of 4-byte words.  An int is one word; a double is
\* sizeof(double) / sizeof(int) = 2 words, the high and the low half of its
\* representation.
\* ------------------------------------------------------------------------
WordBase == 2 ^ 16
SizeofInt == 1
SizeofDouble == 2 * SizeofInt

IntWords(n) == <<n>>
WordsInt(w) == w[1]
DoubleWords(x) == <<x \div WordBase, x % WordBase>>
WordsDouble(w) == (w[1] * WordBase) + w[2]

\* The words of items[from .. upto], one after the other.
RECURSIVE Flatten(_, _, _)
Flatten(items, from, upto) ==
    IF from > upto THEN <<>>
    ELSE items[from] \o Flatten(items, from + 1, upto)

\* fwrite(ptr, size, n, stream) for n = Len(items); the stream is the words
\* written so far and the room the device has left, in words.  An item is
\* written whole or not at all; count is what fwrite returns.
fwrite(items, size, stream) ==
    LET count == Min(Len(items), stream.room \div size)
    IN  [stream |-> [words |-> stream.words \o Flatten(items, 1, count),
                     room |-> stream.room - (count * size)],
         count |-> count]

\* fread(ptr, size, n, stream); the stream is the words of the file and the
\* read position.  count is what fread returns.
fread(size, n, stream) ==
    LET count == Min(n, (Len(stream.words) - stream.pos) \div size)
    IN  [stream |-> [stream EXCEPT !.pos = stream.pos + (count * size)],
         items |-> [k \in 1 .. count |->
                       SubSeq(stream.words, stream.pos + ((k - 1) * size) + 1,
                              stream.pos + (k * size))],
         count |-> count]

\* The output stream after an fwrite of n items, with the value to return:
\* -1 if fwrite wrote fewer.
Written(w, n) ==
    [words |-> w.stream.words, room |-> w.stream.room,
     ret |-> IF w.count # n THEN -1 ELSE 0]

\* Lines 100-104 of matrix_write.
WriteData(matrix, s) ==
    IF s.ret # 0 THEN s
    ELSE Written(fwrite([k \in 1 .. (matrix.rows * matrix.columns) |->
                            DoubleWords(matrix.data[k - 1])],
                        SizeofDouble, s),
                 matrix.rows * matrix.columns)

\* Lines 97-104 of matrix_write.
WriteColumns(matrix, s) ==
    IF s.ret # 0 THEN s
    ELSE WriteData(matrix, Written(fwrite(<<IntWords(matrix.columns)>>, SizeofInt, s), 1))

\* matrix_write(matrix, file): the stream afterwards, with the return value.
matrix_write(matrix, s) ==
    WriteColumns(matrix, Written(fwrite(<<IntWords(matrix.rows)>>, SizeofInt, s), 1))

\* What matrix_read returns when it fails, the stream being at s.
NullMatrix(s) == [matrix |-> [rows |-> 0, columns |-> 0, data |-> <<>>], stream |-> s]

\* Lines 67-77 of matrix_read, r3 being the result of the fread of the data.
ReadMatrix(rows, columns, r3) ==
    IF r3.count # rows * columns THEN NullMatrix(r3.stream)
    ELSE [matrix |-> [rows |-> rows, columns |-> columns,
                      data |-> [k \in 0 .. (rows * columns - 1) |->
                                   WordsDouble(r3.items[k + 1])]],
          stream |-> r3.stream]

\* Lines 61-67 of matrix_read; mallocOk says whether malloc succeeds.
ReadData(rows, columns, s, mallocOk) ==
    IF rows * columns <= 0 THEN NullMatrix(s)
    ELSE IF ~mallocOk THEN NullMatrix(s)
    ELSE ReadMatrix(rows, columns, fread(SizeofDouble, rows * columns, s))

\* Lines 58-59 of matrix_read, r2 being the result of the fread of columns.
ReadColumns(rows, r2, mallocOk) ==
    IF r2.count # 1 THEN NullMatrix(r2.stream)
    ELSE ReadData(rows, WordsInt(r2.items[1]), r2.stream, mallocOk)

\* Lines 55-56 of matrix_read, r1 being the result of the fread of rows.
ReadRows(r1, mallocOk) ==
    IF r1.count # 1 THEN NullMatrix(r1.stream)
    ELSE ReadColumns(WordsInt(r1.items[1]), fread(SizeofInt, 1, r1.stream), mallocOk)

\* matrix_read(file): the matrix returned and the stream afterwards.
matrix_read(s, mallocOk) == ReadRows(fread(SizeofInt, 1, s), mallocOk)

\* mlp_write_weights that writes the biases of a layer before its weights.
RECURSIVE WriteLayers_biasesFirst(_, _, _)
WriteLayers_biasesFirst(mlp, i, s) ==
    IF i > mlp.depth \/ s.ret # 0 THEN s
    ELSE LET b == matrix_write(mlp.layers[i].biases, s)
         IN  IF b.ret # 0 THEN b
             ELSE WriteLayers_biasesFirst(mlp, i + 1,
                                          matrix_write(mlp.layers[i].weights, b))

mlp_write_weights_biasesFirst(mlp, s) == WriteLayers_biasesFirst(mlp, 0, s)

\* The loop of mlp_write_weights from layer i on; s.ret # 0 once a write failed.
RECURSIVE WriteLayers(_, _, _)
WriteBiases(mlp, i, s) ==
    IF s.ret # 0 THEN s
    ELSE WriteLayers(mlp, i + 1, matrix_write(mlp.layers[i].biases, s))

WriteLayers(mlp, i, s) ==
    Step(s, IF i > mlp.depth \/ s.ret # 0 THEN s
            ELSE WriteBiases(mlp, i, matrix_write(mlp.layers[i].weights, s)))

mlp_write_weights(mlp, s) == WriteLayers(mlp, 0, s)

\* Whether matrix_read's result passes the check of mlp_read_weights.
ReadFits(matrix, expected) ==
    ~(matrix.rows # expected.rows \/ matrix.columns # expected.columns
      \/ DOMAIN matrix.data = {})

\* The loop of mlp_read_weights from layer i on.  st holds the network, the
\* stream, the calls of matrix_read made so far and the return value once it
\* is known to be -1; failAt is the call of matrix_read whose malloc fails
\* (0: none).
RECURSIVE ReadLayers(_, _, _)
ReadBiases(st, i, b, failAt) ==
    IF ~ReadFits(b.matrix, st.mlp.layers[i].biases)
    THEN [st EXCEPT !.stream = b.stream, !.reads = @ + 1, !.ret = -1]
    ELSE ReadLayers([st EXCEPT
                        !.mlp.layers[i].biases = matrix_copy(@, b.matrix),
                        !.stream = b.stream, !.reads = @ + 1],
                    i + 1, failAt)

ReadWeights(st, i, w, failAt) ==
    IF ~ReadFits(w.matrix, st.mlp.layers[i].weights)
    THEN [st EXCEPT !.stream = w.stream, !.reads = @ + 1, !.ret = -1]
    ELSE ReadBiases([st EXCEPT
                        !.mlp.layers[i].weights = matrix_copy(@, w.matrix),
                        !.stream = w.stream, !.reads = @ + 1],
                    i, matrix_read(w.stream, failAt # st.reads + 2), failAt)

ReadLayers(st, i, failAt) ==
    Step(st, IF i > st.mlp.depth THEN st
             ELSE ReadWeights(st, i, matrix_read(st.stream, failAt # st.reads + 1),
                              failAt))

mlp_read_weights(mlp, stream, reads, failAt) ==
    ReadLayers([mlp |-> mlp, stream |-> stream, reads |-> reads, ret |-> 0], 0, failAt)

\* A file of the file system: whether it exists, and its words.
NoFile == [exists |-> FALSE, words |-> <<>>]

\* fclose, and the return of ddpg_save_policy.
SaveClosed(s) == [file |-> [exists |-> TRUE, words |-> s.words], ret |-> s.ret]

\* Lines 274-281 of ddpg_save_policy, s being the stream after the actor.
SaveCritic(d, s) ==
    IF s.ret # 0 THEN SaveClosed(s) ELSE SaveClosed(mlp_write_weights(d.critic, s))

\* ddpg_save_policy(ddpg, filename): the file afterwards and the return value.
\* opens says whether fopen succeeds, room how many words the device takes.
ddpg_save_policy(d, f, opens, room) ==
    IF ~opens THEN [file |-> f, ret |-> -1]
    ELSE SaveCritic(d, mlp_write_weights(d.actor,
                                         [words |-> <<>>, room |-> room, ret |-> 0]))

\* Lines 296-303 of ddpg_load_policy, c being what mlp_read_weights left.
LoadClosed(d, c) == [ddpg |-> [d EXCEPT !.critic = c.mlp], ret |-> c.ret]

\* Lines 290-303 of ddpg_load_policy, a being what mlp_read_weights left.
LoadCritic(d, a, failAt) ==
    IF a.ret # 0 THEN [ddpg |-> [d EXCEPT !.actor = a.mlp], ret |-> -1]
    ELSE LoadClosed([d EXCEPT !.actor = a.mlp],
                    mlp_read_weights(d.critic, a.stream, a.reads, failAt))

\* ddpg_load_policy that leaves the agent as it was when it returns -1.
ddpg_load_policy_atomic(d, f, opens, failAt) ==
    IF ~opens THEN [ddpg |-> d, ret |-> -1]
    ELSE LET r == LoadCritic(d, mlp_read_weights(d.actor, [words |-> f.words, pos |-> 0],
                                                 0, failAt),
                             failAt)
         IN  IF r.ret # 0 THEN [ddpg |-> d, ret |-> -1] ELSE r

\* ddpg_load_policy(ddpg, filename): the agent afterwards and the return
\* value.  opens says whether fopen succeeds, failAt which malloc fails.
ddpg_load_policy(d, f, opens, failAt) ==
    IF ~opens THEN [ddpg |-> d, ret |-> -1]
    ELSE LoadCritic(d, mlp_read_weights(d.actor, [words |-> f.words, pos |-> 0],
                                        0, failAt),
                    failAt)

\* ------------------------------------------------------------------------
\* The agent under test and the calls made on it
\* ------------------------------------------------------------------------

\* The calls one run may make: calls of ddpg_observe, effective calls of
\* ddpg_train, calls of ddpg_action and ddpg_update_target_networks.
MaxObserve == 3
MaxTrain == 1
MaxOther == 1
\* The calls of ddpg_observe in a run that only fills the memory, and the
\* rows of its memory.
RingObserve == 7
RingMemorySize == 4
\* The calls in a run that saves and loads policies.
PolicyCalls == 4
\* The calls in a run that uses a network and its optimizer on their own.
MlpCalls == 4
\* The calls in a run of every operation on one agent, and the rows of a
\* memory that holds less than a batch.
AllObserve == 3
AllTrain == 2
AllOther == 2
SmallMemorySize == 1
\* The calls in the life of an agent.
LifeObserve == 3
LifeTrain == 1
LifeOther == 2

\* The arguments of ddpg_create.
memorySize == 3
batchSize == 2
Architectures ==
    { [stateSize |-> 2, actionSize |-> 1,
       actorDepth |-> 1, actorLayers |-> <<2>>,
       criticDepth |-> 1, criticLayers |-> <<2>>] }
\* The noise argument: 0.01 on every coordinate.
Noises(actionSize) == { Ptr([i \in 0 .. (actionSize - 1) |-> 10]) }

\* The noise argument of ddpg_create in the life of an agent: none, or some.
LifeNoises(actionSize) == { NULL } \cup Noises(actionSize)
\* The arguments of the calls in the life of an agent.
LifeObservations == { <<300, -200, 600, 0>> }
LifeStates == { 600 }
LifeTrainRands == { <<0, 1>> }
\* The call of malloc that fails in ddpg_create, 0 if none does: the structure,
\* the action, the call after it, calls inside the creators of the networks
\* and of the optimizers, and the last calls.
MallocFailures == { 0, 1, 2, 3, 30, 90, 105, 106, 111, 112 }
\* The arguments of the calls in a run of every operation on one agent.
AllObservations == { <<300, -200, 600, 0>>, <<-700, 1000, -400, 2>> }
AllTrainRands == { <<0, 1>> }
AllStates == { 600 }
AllRands == { RAND_MAX }
AllRooms == { 4096 }
\* The agents whose critic is used on its own: without and with a hidden layer.
MlpArchitectures ==
    { [stateSize |-> 2, actionSize |-> 1, actorDepth |-> 1, actorLayers |-> <<2>>,
       criticDepth |-> 0, criticLayers |-> <<>>],
      [stateSize |-> 2, actionSize |-> 1, actorDepth |-> 1, actorLayers |-> <<2>>,
       criticDepth |-> 1, criticLayers |-> <<2>>] }
\* The first element of each row of the batches fed to the critic, and of the
\* targets it is trained on.
MlpInputs == { <<600, -300>>, <<0, 0>> }
\* The last target is a tiny value in both rows, 1e-200 say.
MlpTargets == { <<0, 0>>, <<500, -250>>, <<TinyBase + 1000, TinyBase + 1000>> }
\* The norm the gradients are clipped to by mlp_sgd_clip.
ClipNorms == { 50 }
\* The arguments of adam_set: alpha, beta1, beta2, epsilon.
AdamSettings == { <<10, 500, 900, 1>> }
\* The learning rate of mlp_sgd.
LearningRates == { 100 }

\* What rand() returns, call after call, after srand(seed).
RandStream(seed) == [n \in Nat |-> ((seed + n) * 7919) % (RAND_MAX + 1)]
Seeds == {1}
\* The agents of the runs that save and load policies.
PolicySeeds == {1, 2}
PolicyArchitectures ==
    Architectures \cup
    { [stateSize |-> 2, actionSize |-> 1,
       actorDepth |-> 0, actorLayers |-> <<>>,
       criticDepth |-> 1, criticLayers |-> <<2>>],
      [stateSize |-> 2, actionSize |-> 1,
       actorDepth |-> 1, actorLayers |-> <<2>>,
       criticDepth |-> 2, criticLayers |-> <<2, 1>>] }

\* The vector (v, v + 100, v + 200, ...) of n doubles.
Vec(n, v) == [i \in 0 .. (n - 1) |-> v + (100 * i)]

\* The arguments of ddpg_observe: action[0], reward, state[0], terminal.
Observations == { <<300, -200, 600, 0>>, <<-700, 1000, -400, 2>>, <<100, 50, 500, -1>> }
\* The arguments of ddpg_action: state[0], and what rand() returns.
ActionStates == { 600, 8000000 }
ActionRands == { 0, RAND_MAX }
\* The arguments of ddpg_train: gamma, and what rand() returns, call after call.
Gammas == { 900 }
TrainRands == { <<0, 0>>, <<0, 1>>, <<1, 0>>, <<3, 5>> }
\* The outcomes of the file system and of malloc in the persistence calls.
DiskRooms == { 5, 4096 }
FailAts == { 0, 3 }

VARIABLES
    ddpg,       \* the DDPG structure
    file,       \* the policy file
    call,       \* the last call made: its name, arguments and return value
    hist,       \* the transitions recorded so far: the row written and its content
    prevObs,    \* the state argument of the last ddpg_observe of the running
                \* episode, if there was one
    budget,     \* the calls the run may still make, by kind
    randCalls,  \* the calls of rand() made since ddpg_create returned
    saved,      \* the actor and the critic the file was last written from,
                \* and whether it was written whole
    heap        \* the buffers of the agent: allocated, freed, freed twice

vars == <<ddpg, file, call, hist, prevObs, budget, randCalls, saved, heap>>

\* ddpg_create for an architecture, with a memory of M rows, after srand(seed).
Agent(arch, noise, M, seed) ==
    ddpg_create(arch.stateSize, arch.actionSize, noise,
                arch.actorDepth, arch.actorLayers,
                arch.criticDepth, arch.criticLayers,
                M, batchSize, RandStream(seed))

NoneSaved == [whole |-> FALSE, actor |-> <<>>, critic |-> <<>>]

\* The state after ddpg_create.
Created(archs, M, seeds) ==
    /\ \E arch \in archs, seed \in seeds :
       \E noise \in Noises(arch.actionSize) :
          ddpg = Agent(arch, noise, M, seed)
    /\ heap = ddpg_create_outcome(ddpg, NoHeap, 0).heap
    /\ file = NoFile
    /\ randCalls = 0
    /\ saved = NoneSaved
    /\ call = [op |-> "ddpg_create", failAt |-> 0, ret |-> "handle", through |-> FALSE]
    /\ hist = <<>>
    /\ prevObs = [some |-> FALSE, state |-> <<>>]

Init ==
    /\ Created(Architectures, memorySize, Seeds)
    /\ budget = [observe |-> MaxObserve, train |-> MaxTrain, other |-> MaxOther]

InitRing ==
    /\ Created(Architectures, RingMemorySize, Seeds)
    /\ budget = [observe |-> RingObserve, train |-> 0, other |-> 0]

InitPolicy ==
    /\ Created(PolicyArchitectures, memorySize, PolicySeeds)
    /\ budget = [observe |-> 0, train |-> 0, other |-> PolicyCalls]

\* Every buffer of the agent is allocated: what each function but the creator
\* asks of the handle it is given.
Usable ==
    heap.live = BufferSet(ddpg_create_mallocs(ddpg.noise.null, ddpg.actor.depth,
                                              ddpg.critic.depth))

\* The content of row r of the memory.
MemoryRow(d, r) ==
    [c \in 0 .. (d.memory.columns - 1) |-> d.memory.data[MATRIX(d.memory, r, c)]]

Observe(action, reward, state, terminal) ==
    /\ Usable
    /\ budget.observe > 0
    /\ ddpg' = ddpg_observe(ddpg, action, reward, state, terminal)
    /\ call' = [op |-> "ddpg_observe", action |-> action, reward |-> reward,
                state |-> state, terminal |-> terminal,
                recording |-> (ddpg.lastStateValid # 0)]
    /\ hist' = IF ddpg.lastStateValid # 0
               THEN Append(hist, [row |-> ddpg.memoryIdx,
                                  prevState |-> prevObs.state,
                                  action |-> action, reward |-> reward,
                                  state |-> state, terminal |-> terminal])
               ELSE hist
    /\ prevObs' = [some |-> TRUE, state |-> state]
    /\ budget' = [budget EXCEPT !.observe = @ - 1]
    /\ UNCHANGED <<file, randCalls, saved, heap>>

NewEpisode ==
    /\ Usable
    /\ ddpg' = ddpg_new_episode(ddpg)
    /\ call' = [op |-> "ddpg_new_episode"]
    /\ prevObs' = [some |-> FALSE, state |-> <<>>]
    /\ UNCHANGED <<file, hist, budget, randCalls, saved, heap>>

Action(state, rnd) ==
    /\ Usable
    /\ budget.other > 0
    /\ ddpg' = ddpg_action(ddpg, state, rnd)
    /\ call' = [op |-> "ddpg_action", state |-> state, rnd |-> rnd,
                ret |-> ddpg'.action]
    /\ budget' = [budget EXCEPT !.other = @ - 1]
    /\ randCalls' = randCalls + ddpg_action_rands(ddpg)
    /\ UNCHANGED <<file, hist, prevObs, saved, heap>>

Train(gamma, rnd) ==
    /\ Usable
    /\ ddpg.memoryUsed >= ddpg.batchSize => budget.train > 0
    /\ ddpg' = ddpg_train(ddpg, gamma, rnd)
    /\ call' = [op |-> "ddpg_train", gamma |-> gamma, rnd |-> rnd]
    /\ budget' = IF ddpg.memoryUsed >= ddpg.batchSize
                 THEN [budget EXCEPT !.train = @ - 1] ELSE budget
    /\ randCalls' = randCalls + ddpg_train_rands(ddpg)
    /\ UNCHANGED <<file, hist, prevObs, saved, heap>>

UpdateTargetNetworks ==
    /\ Usable
    /\ budget.other > 0
    /\ ddpg' = ddpg_update_target_networks(ddpg)
    /\ call' = [op |-> "ddpg_update_target_networks"]
    /\ budget' = [budget EXCEPT !.other = @ - 1]
    /\ UNCHANGED <<file, hist, prevObs, randCalls, saved, heap>>

\* ddpg_destroy, then ddpg_create for another agent.
Create(arch, noise, seed) ==
    /\ Usable
    /\ budget.other > 0
    /\ ddpg' = Agent(arch, noise, ddpg.memorySize, seed)
    /\ heap' = ddpg_create_outcome(ddpg', HeapFree(heap, ddpg_destroy(ddpg)), 0).heap
    /\ call' = [op |-> "ddpg_create", failAt |-> 0, ret |-> "handle", through |-> FALSE]
    /\ hist' = <<>>
    /\ prevObs' = [some |-> FALSE, state |-> <<>>]
    /\ randCalls' = 0
    /\ budget' = [budget EXCEPT !.other = @ - 1]
    /\ UNCHANGED <<file, saved>>

SavePolicy(opens, room) ==
    /\ Usable
    /\ budget.other > 0
    /\ LET r == ddpg_save_policy(ddpg, file, opens, room)
       IN  /\ file' = r.file
           /\ call' = [op |-> "ddpg_save_policy", opens |-> opens, room |-> room,
                       ret |-> r.ret]
           /\ saved' = IF ~opens THEN saved
                       ELSE [whole |-> (r.ret = 0), actor |-> ddpg.actor,
                             critic |-> ddpg.critic]
    /\ budget' = [budget EXCEPT !.other = @ - 1]
    /\ UNCHANGED <<ddpg, hist, prevObs, randCalls, heap>>

LoadPolicy(opens, failAt) ==
    /\ Usable
    /\ budget.other > 0
    /\ opens => file.exists
    /\ LET r == ddpg_load_policy(ddpg, file, opens, failAt)
       IN  /\ ddpg' = r.ddpg
           /\ call' = [op |-> "ddpg_load_policy", opens |-> opens,
                       failAt |-> failAt, ret |-> r.ret,
                       changed |-> (r.ddpg # ddpg)]
    /\ budget' = [budget EXCEPT !.other = @ - 1]
    /\ UNCHANGED <<file, hist, prevObs, randCalls, saved, heap>>

\* mlp_sgd on the critic of the agent.
Sgd(lr) ==
    /\ Usable
    /\ budget.other > 0
    /\ ddpg' = [ddpg EXCEPT !.critic = mlp_sgd(ddpg.critic, lr)]
    /\ call' = [op |-> "mlp_sgd", lr |-> lr]
    /\ budget' = [budget EXCEPT !.other = @ - 1]
    /\ UNCHANGED <<file, hist, prevObs, randCalls, saved, heap>>

\* mlp_sgd_clip on the critic of the agent.
SgdClip(lr, clipnorm) ==
    /\ Usable
    /\ budget.other > 0
    /\ ddpg' = [ddpg EXCEPT !.critic = mlp_sgd_clip(ddpg.critic, lr, clipnorm)]
    /\ call' = [op |-> "mlp_sgd_clip", lr |-> lr, clipnorm |-> clipnorm]
    /\ budget' = [budget EXCEPT !.other = @ - 1]
    /\ UNCHANGED <<file, hist, prevObs, randCalls, saved, heap>>

\* mlp_feedforward on the critic of the agent; it returns the output.
Feedforward(x) ==
    /\ Usable
    /\ budget.other > 0
    /\ ddpg' = [ddpg EXCEPT !.critic = mlp_feedforward(ddpg.critic, x)]
    /\ call' = [op |-> "mlp_feedforward", x |-> x, ret |-> ddpg'.critic.output]
    /\ budget' = [budget EXCEPT !.other = @ - 1]
    /\ UNCHANGED <<file, hist, prevObs, randCalls, saved, heap>>

\* mlp_backpropagate on the critic of the agent.
Backpropagate(y, lossFunctionCode) ==
    /\ Usable
    /\ budget.other > 0
    /\ ddpg' = [ddpg EXCEPT !.critic = mlp_backpropagate(ddpg.critic, y, lossFunctionCode)]
    /\ call' = [op |-> "mlp_backpropagate", y |-> y, loss |-> lossFunctionCode,
                fed |-> (call.op = "mlp_feedforward")]
    /\ budget' = [budget EXCEPT !.other = @ - 1]
    /\ UNCHANGED <<file, hist, prevObs, randCalls, saved, heap>>

\* adam_optimize on the critic of the agent with its optimizer.  hist keeps,
\* for this run, the gradients of the biases each call was given.
AdamOptimize ==
    /\ Usable
    /\ budget.other > 0
    /\ LET adam == ddpg.criticAdam
           r == adam_optimize(ddpg.critic, adam)
           L == 0 .. (adam.depth - 1)
           biasDivisors == [i \in L |-> [k \in DOMAIN r.adam.vb[i].data |->
                               AdamBiasDivisor(adam, r.adam.vb[i].data[k])]]
           weightDivisors == [i \in L |-> [k \in DOMAIN r.adam.vw[i].data |->
                                 AdamWeightDivisor(adam, r.adam.vw[i].data[k])]]
       IN  /\ ddpg' = [ddpg EXCEPT !.critic = r.mlp, !.criticAdam = r.adam]
           /\ call' = [op |-> "adam_optimize",
                       beta1t |-> adam.beta1t, beta2t |-> adam.beta2t,
                       biasDivisors |-> biasDivisors,
                       weightDivisors |-> weightDivisors]
           /\ hist' = Append(hist,
                  [op |-> "adam_optimize",
                   gradBiases |-> [i \in L |-> ddpg.critic.layers[i].gradBiases.data],
                   byZero |-> \E i \in L : \E k \in DOMAIN biasDivisors[i] :
                                 biasDivisors[i][k] = 0])
    /\ budget' = [budget EXCEPT !.other = @ - 1]
    /\ UNCHANGED <<file, prevObs, randCalls, saved, heap>>

\* adam_reset on the optimizer of the critic.
AdamReset ==
    /\ Usable
    /\ budget.other > 0
    /\ ddpg' = [ddpg EXCEPT !.criticAdam = adam_reset(ddpg.criticAdam)]
    /\ call' = [op |-> "adam_reset"]
    /\ hist' = Append(hist, [op |-> "adam_reset"])
    /\ budget' = [budget EXCEPT !.other = @ - 1]
    /\ UNCHANGED <<file, prevObs, randCalls, saved, heap>>

\* adam_set on the optimizer of the critic, right after it was created
\* (adam.h: "should be called immediately upon creation, before the structure
\* is used for the first time").
AdamSet(alpha, beta1, beta2, epsilon) ==
    /\ Usable
    /\ budget.other > 0
    /\ call.op = "ddpg_create"
    /\ ddpg' = [ddpg EXCEPT !.criticAdam =
                    adam_set(ddpg.criticAdam, alpha, beta1, beta2, epsilon)]
    /\ call' = [op |-> "adam_set"]
    /\ budget' = [budget EXCEPT !.other = @ - 1]
    /\ UNCHANGED <<file, hist, prevObs, randCalls, saved, heap>>

\* ddpg_destroy of a handle ddpg_create returned.
Destroy ==
    /\ <<"ddpg", -1, "DDPG">> \in heap.live
    /\ heap' = HeapFree(heap, ddpg_destroy(ddpg))
    /\ call' = [op |-> "ddpg_destroy", allocated |-> heap.live]
    /\ UNCHANGED <<ddpg, file, hist, prevObs, budget, randCalls, saved>>

\* ddpg_create once the agent was destroyed, or in a process started anew after
\* the last one was ended by a signal; its call number failAt of malloc fails.
CreateNext(arch, noise, seed, failAt) ==
    /\ <<"ddpg", -1, "DDPG">> \notin heap.live
    /\ budget.other > 0
    /\ \E agent \in { Agent(arch, noise, memorySize, seed) } :
       \E r \in { ddpg_create_outcome(agent, heap, failAt) } :
           /\ ddpg' = r.ddpg
           /\ heap' = r.heap
           /\ call' = [op |-> "ddpg_create", failAt |-> failAt, ret |-> r.ret,
                       through |-> r.through]
    /\ hist' = <<>>
    /\ prevObs' = [some |-> FALSE, state |-> <<>>]
    /\ randCalls' = 0
    /\ budget' = [budget EXCEPT !.other = @ - 1]
    /\ UNCHANGED <<file, saved>>

ObserveSome ==
    \E o \in Observations :
        Observe(Vec(ddpg.actionSize, o[1]), o[2], Vec(ddpg.stateSize, o[3]), o[4])

ActionSome ==
    \E s \in ActionStates, r \in ActionRands :
        Action(Vec(ddpg.stateSize, s), [i \in 0 .. (ddpg.actionSize - 1) |-> r])

TrainSome ==
    \E gamma \in Gammas, rnd \in TrainRands :
        Train(gamma, [i \in 0 .. (ddpg.batchSize - 1) |-> rnd[(i % Len(rnd)) + 1]])

Next ==
    \/ ObserveSome
    \/ NewEpisode
    \/ ActionSome
    \/ TrainSome
    \/ UpdateTargetNetworks

Spec == Init /\ [][Next]_vars

NextRing ==
    \/ ObserveSome
    \/ NewEpisode

SpecRing == InitRing /\ [][NextRing]_vars

NextPolicy ==
    \/ \E arch \in PolicyArchitectures, seed \in PolicySeeds :
       \E noise \in Noises(arch.actionSize) : Create(arch, noise, seed)
    \/ \E opens \in BOOLEAN, room \in DiskRooms : SavePolicy(opens, room)
    \/ \E opens \in BOOLEAN, failAt \in FailAts : LoadPolicy(opens, failAt)

SpecPolicy == InitPolicy /\ [][NextPolicy]_vars

\* The life of an agent: created with or without noise, used, destroyed, and
\* created again with a call of malloc that may fail.
InitLife ==
    /\ \E arch \in Architectures, seed \in Seeds :
       \E noise \in LifeNoises(arch.actionSize) :
          ddpg = Agent(arch, noise, memorySize, seed)
    /\ heap = ddpg_create_outcome(ddpg, NoHeap, 0).heap
    /\ file = NoFile
    /\ randCalls = 0
    /\ saved = NoneSaved
    /\ call = [op |-> "ddpg_create", failAt |-> 0, ret |-> "handle", through |-> FALSE]
    /\ hist = <<>>
    /\ prevObs = [some |-> FALSE, state |-> <<>>]
    /\ budget = [observe |-> LifeObserve, train |-> LifeTrain, other |-> LifeOther]

CreateNextSome ==
    \E arch \in Architectures, seed \in Seeds :
    \E noise \in LifeNoises(arch.actionSize) :
    \E failAt \in MallocFailures :
        /\ failAt <= Len(ddpg_create_mallocs(noise.null, arch.actorDepth,
                                             arch.criticDepth))
        /\ CreateNext(arch, noise, seed, failAt)

NextLife ==
    \/ \E o \in LifeObservations :
          Observe(Vec(ddpg.actionSize, o[1]), o[2], Vec(ddpg.stateSize, o[3]), o[4])
    \/ NewEpisode
    \/ \E s \in LifeStates, r \in ActionRands :
          Action(Vec(ddpg.stateSize, s), [i \in 0 .. (ddpg.actionSize - 1) |-> r])
    \/ \E gamma \in Gammas, rnd \in LifeTrainRands :
          Train(gamma, [i \in 0 .. (ddpg.batchSize - 1) |-> rnd[(i % Len(rnd)) + 1]])
    \/ UpdateTargetNetworks
    \/ \E lr \in LearningRates : Sgd(lr)
    \/ Destroy
    \/ CreateNextSome

SpecLife == InitLife /\ [][NextLife]_vars

\* A network and its optimizer used on their own: the critic of an agent and
\* the optimizer of the critic.
InitMlp ==
    /\ Created(MlpArchitectures, memorySize, Seeds)
    /\ budget = [observe |-> 0, train |-> 0, other |-> MlpCalls]

\* A batch for the critic: row b is (v, v + 100, ...) for v = rows[b].
Batch(rows, columns) ==
    [rows |-> batchSize, columns |-> columns,
     data |-> [i \in 0 .. (batchSize * columns - 1) |->
                  rows[(i \div columns) + 1] + 100 * (i % columns)]]

NextMlp ==
    \/ \E rows \in MlpInputs :
          Feedforward(Batch(rows, ddpg.actionSize + ddpg.stateSize))
    \/ \E rows \in MlpTargets, loss \in {LOSS_NONE, LOSS_MSE} :
          Backpropagate(Batch(rows, 1), loss)
    \/ \E lr \in LearningRates : Sgd(lr)
    \/ \E lr \in LearningRates, clipnorm \in ClipNorms : SgdClip(lr, clipnorm)
    \/ AdamOptimize
    \/ AdamReset
    \/ \E p \in AdamSettings : AdamSet(p[1], p[2], p[3], p[4])

SpecMlp == InitMlp /\ [][NextMlp]_vars

\* Every operation of ddpg.h on one agent, created with or without noise and
\* with a memory of less than a batch or of more.
InitAll ==
    /\ \E arch \in Architectures, seed \in Seeds, M \in {SmallMemorySize, memorySize} :
       \E noise \in LifeNoises(arch.actionSize) :
          ddpg = Agent(arch, noise, M, seed)
    /\ heap = ddpg_create_outcome(ddpg, NoHeap, 0).heap
    /\ file = NoFile
    /\ randCalls = 0
    /\ saved = NoneSaved
    /\ call = [op |-> "ddpg_create", failAt |-> 0, ret |-> "handle", through |-> FALSE]
    /\ hist = <<>>
    /\ prevObs = [some |-> FALSE, state |-> <<>>]
    /\ budget = [observe |-> AllObserve, train |-> AllTrain, other |-> AllOther]

NextAll ==
    \/ \E o \in AllObservations :
          Observe(Vec(ddpg.actionSize, o[1]), o[2], Vec(ddpg.stateSize, o[3]), o[4])
    \/ NewEpisode
    \/ \E s \in AllStates, r \in AllRands :
          Action(Vec(ddpg.stateSize, s), [i \in 0 .. (ddpg.actionSize - 1) |-> r])
    \/ \E gamma \in Gammas, rnd \in AllTrainRands :
          Train(gamma, [i \in 0 .. (ddpg.batchSize - 1) |-> rnd[(i % Len(rnd)) + 1]])
    \/ UpdateTargetNetworks
    \/ \E opens \in BOOLEAN, room \in AllRooms : SavePolicy(opens, room)
    \/ \E opens \in BOOLEAN, failAt \in FailAts : LoadPolicy(opens, failAt)

SpecAll == InitAll /\ [][NextAll]_vars

\* ------------------------------------------------------------------------
\* The replay memory (ddpg_observe, ddpg_new_episode)
\* ------------------------------------------------------------------------

\* The row of the memory that holds one transition: the state before, the
\* action, the reward, the state after and the terminal flag as 1.0 or 0.0.
Transition(S, A, prevState, action, reward, state, terminal) ==
    [c \in 0 .. (2 * S + A + 1) |->
        IF c < S THEN prevState[c]
        ELSE IF c < S + A THEN action[c - S]
        ELSE IF c = S + A THEN reward
        ELSE IF c < 2 * S + A + 1 THEN state[c - (S + A + 1)]
        ELSE IF terminal > 0 THEN Scale ELSE 0]

\* The row that holds the j-th recorded transition.
Recorded(j) ==
    Transition(ddpg.stateSize, ddpg.actionSize, hist[j].prevState, hist[j].action,
               hist[j].reward, hist[j].state, hist[j].terminal)

\* C1: with K the number of calls of ddpg_observe entered with lastStateValid
\* = 1 since creation, memoryUsed = min(K, memorySize) and memoryIdx = K mod
\* memorySize, whatever calls of ddpg_new_episode lie in between.
C1_UsedAndIdxCountRecords ==
    LET K == Len(hist)
    IN  /\ ddpg.memoryUsed = (IF K < ddpg.memorySize THEN K ELSE ddpg.memorySize)
        /\ ddpg.memoryIdx = K % ddpg.memorySize

\* C1's case: more transitions recorded than the memory has rows, across an
\* episode boundary.
C1_Witness ==
    /\ Len(hist) = ddpg.memorySize + 1
    /\ ddpg.memoryIdx = 1
    /\ ddpg.memoryUsed = ddpg.memorySize
    /\ \E j \in 1 .. (Len(hist) - 1) : hist[j + 1].prevState # hist[j].state

\* C2: a call of ddpg_observe with lastStateValid = 0 copies state into
\* lastState, sets lastStateValid to 1 and changes nothing else of the agent
\* (nor the file): the action, the reward and the terminal flag are ignored.
C2_FirstObserveOnlyStoresState ==
    [][ (call'.op = "ddpg_observe" /\ ddpg.lastStateValid = 0)
        => /\ ddpg' = [ddpg EXCEPT
                         !.lastState = [i \in 0 .. (ddpg.stateSize - 1) |-> call'.state[i]],
                         !.lastStateValid = 1]
           /\ file' = file ]_vars

\* C2's case: the first ddpg_observe of a later episode, the memory holding
\* transitions already.
C2_Witness ==
    /\ call.op = "ddpg_observe"
    /\ ~call.recording
    /\ Len(hist) > 0
    /\ ddpg.lastStateValid = 1

\* C3: a call of ddpg_observe with lastStateValid = 1 writes, in the row the
\* memoryIdx of before the call names, the lastState of before the call, the
\* action, the reward, the state and 1.0 if terminal > 0 else 0.0; it leaves the
\* other rows alone; lastState becomes state; and the row (memoryIdx - 1) mod
\* memorySize of after the call holds the transition.
C3_RecordingObserveWritesRow ==
    [][ (call'.op = "ddpg_observe" /\ ddpg.lastStateValid # 0)
        => LET t == Transition(ddpg.stateSize, ddpg.actionSize, ddpg.lastState,
                               call'.action, call'.reward, call'.state,
                               call'.terminal)
           IN  /\ MemoryRow(ddpg', ddpg.memoryIdx) = t
               /\ \A r \in 0 .. (ddpg.memorySize - 1) :
                     r # ddpg.memoryIdx => MemoryRow(ddpg', r) = MemoryRow(ddpg, r)
               /\ ddpg'.lastState = [i \in 0 .. (ddpg.stateSize - 1) |-> call'.state[i]]
               /\ MemoryRow(ddpg', (ddpg'.memoryIdx - 1) % ddpg.memorySize) = t ]_vars

\* C3's case: a terminal transition recorded over an older one.
C3_Witness ==
    /\ call.op = "ddpg_observe"
    /\ call.recording
    /\ call.terminal > 0
    /\ Len(hist) > ddpg.memorySize
    /\ MemoryRow(ddpg, hist[Len(hist)].row)[2 * ddpg.stateSize + ddpg.actionSize + 1]
          = Scale

\* C4: the memory is a ring of the min(K, memorySize) latest transitions: the
\* j-th recorded transition was written in row (j - 1) mod memorySize and is
\* there as long as it is among the memorySize latest; the rows from
\* memoryUsed on were never written; and once the memory is full the row at
\* memoryIdx holds the oldest transition kept.
C4_RingOfLatestTransitions ==
    LET K == Len(hist)
        M == ddpg.memorySize
    IN  /\ \A j \in 1 .. K :
              /\ hist[j].row = (j - 1) % M
              /\ j > K - M => MemoryRow(ddpg, (j - 1) % M) = Recorded(j)
        /\ \A r \in 0 .. (M - 1) :
              r >= ddpg.memoryUsed
                 => \A c \in 0 .. (ddpg.memory.columns - 1) :
                       MemoryRow(ddpg, r)[c] = Uninit
        /\ ddpg.memoryUsed = M
              => MemoryRow(ddpg, ddpg.memoryIdx) = Recorded(K - M + 1)

\* C4's case: two transitions more than the memory has rows; row 0 holds the
\* one before the last and the row at memoryIdx the oldest kept.
C4_Witness ==
    /\ Len(hist) = ddpg.memorySize + 2
    /\ ddpg.memoryUsed = ddpg.memorySize
    /\ ddpg.memoryIdx = 2
    /\ MemoryRow(ddpg, 0) = Recorded(ddpg.memorySize + 1)
    /\ MemoryRow(ddpg, 0) # Recorded(1)
    /\ MemoryRow(ddpg, 2) = Recorded(3)

\* C5: no recorded transition spans an episode boundary.  A call of
\* ddpg_observe that records writes, as the state before, the state argument
\* of the call of ddpg_observe just before it, with no ddpg_new_episode in
\* between; and the first ddpg_observe after ddpg_new_episode (or after
\* creation) writes nothing in the memory.
C5_NoTransitionAcrossEpisodes ==
    [][ call'.op = "ddpg_observe"
        => IF prevObs.some
           THEN /\ hist' # hist
                /\ \A c \in 0 .. (ddpg.stateSize - 1) :
                      MemoryRow(ddpg', ddpg.memoryIdx)[c] = prevObs.state[c]
           ELSE /\ hist' = hist
                /\ ddpg'.memory = ddpg.memory
                /\ ddpg'.memoryUsed = ddpg.memoryUsed
                /\ ddpg'.memoryIdx = ddpg.memoryIdx ]_vars

\* C5's case: two transitions in a row with an episode boundary between them:
\* the second does not start where the first ended.
C5_Witness ==
    /\ Len(hist) >= 2
    /\ hist[2].prevState # hist[1].state
    /\ call.op = "ddpg_observe"
    /\ call.recording

\* ------------------------------------------------------------------------
\* Training, the target networks, the action, the policy file
\* ------------------------------------------------------------------------

\* C6: ddpg_train with memoryUsed < batchSize is a no-op: every part of the
\* agent is as before, and no random number is consumed.
C6_TrainNoOpBelowBatch ==
    [][ (call'.op = "ddpg_train" /\ ddpg.memoryUsed < ddpg.batchSize)
        => /\ ddpg' = ddpg
           /\ randCalls' = randCalls
           /\ file' = file ]_vars

\* C6's case: ddpg_train called with one transition in the memory, less than
\* a batch.
C6_Witness ==
    /\ call.op = "ddpg_train"
    /\ ddpg.memoryUsed = ddpg.batchSize - 1
    /\ ddpg.memoryUsed > 0
    /\ ddpg.actorAdam.t = 0

\* C7: in a call of ddpg_train that is not a no-op, each of the batchSize
\* indices drawn is deepc_random_int(0, memoryUsed - 1), lies in 0 ..
\* memoryUsed - 1 and names a row ddpg_observe has written; the draws are
\* independent.  deepc_random_int(min, max) lies in min .. max for min <= max.
C7_BatchIndicesInWrittenRows ==
    [][ (call'.op = "ddpg_train" /\ ddpg.memoryUsed >= ddpg.batchSize)
        => \A i \in 0 .. (ddpg.batchSize - 1) :
              /\ ddpg'.batchIndices[i] \in 0 .. (ddpg.memoryUsed - 1)
              /\ ddpg'.batchIndices[i]
                    = deepc_random_int(0, ddpg.memoryUsed - 1, call'.rnd[i])
              /\ \E j \in 1 .. Len(hist) :
                    /\ hist[j].row = ddpg'.batchIndices[i]
                    /\ MemoryRow(ddpg, ddpg'.batchIndices[i]) = Recorded(j)
              /\ \A min \in -1 .. 1, max \in -1 .. 2 :
                    min <= max
                       => deepc_random_int(min, max, call'.rnd[i]) \in min .. max ]_vars

\* C7's case: a batch that holds the same row twice.
C7_Witness ==
    /\ call.op = "ddpg_train"
    /\ ddpg.memoryUsed >= ddpg.batchSize
    /\ ddpg.actorAdam.t # 0
    /\ ddpg.batchIndices[0] = ddpg.batchIndices[1]
    /\ ddpg.batchIndices[0] = ddpg.memoryUsed - 1

\* C8: right after ddpg_update_target_networks, and right after ddpg_create,
\* every matrix of actorTarget equals that of actor and every matrix of
\* criticTarget that of critic; ddpg_update_target_networks leaves the actor
\* and the critic as they were.
C8_TargetsEqualAfterUpdate ==
    /\ [](call.op \in {"ddpg_create", "ddpg_update_target_networks"}
             => /\ ddpg.actorTarget = ddpg.actor
                /\ ddpg.criticTarget = ddpg.critic)
    /\ [][ call'.op = "ddpg_update_target_networks"
             => /\ ddpg'.actor = ddpg.actor
                /\ ddpg'.critic = ddpg.critic ]_vars

\* C8's case: ddpg_update_target_networks after a training step.
C8_Witness ==
    /\ call.op = "ddpg_update_target_networks"
    /\ ddpg.actorAdam.t # 0
    /\ ddpg.criticAdam.t # 0
    /\ ddpg.actorTarget.layers[0].weights = ddpg.actor.layers[0].weights
    /\ ddpg.criticTarget.layers[0].gradWeights = ddpg.critic.layers[0].gradWeights

\* C9: with a noise array, every coordinate ddpg_action returns lies in
\* [-1, 1].
C9_ActionWithinBounds ==
    (call.op = "ddpg_action" /\ ~ddpg.noise.null)
        => \A i \in 0 .. (ddpg.actionSize - 1) :
              /\ FGe(call.ret[i], FInt(-1))
              /\ FGe(FInt(1), call.ret[i])

\* The words of a matrix in a file: rows, columns, the data row by row.
RECURSIVE DataWords(_, _)
DataWords(data, n) ==
    IF n = 0 THEN <<>> ELSE DataWords(data, n - 1) \o DoubleWords(data[n - 1])

MatrixWords(matrix) ==
    <<matrix.rows, matrix.columns>> \o DataWords(matrix.data, matrix.rows * matrix.columns)

\* The block of a network: weights then biases, layer 0 .. i.
RECURSIVE BlockWords(_, _)
BlockWords(mlp, i) ==
    IF i < 0 THEN <<>>
    ELSE BlockWords(mlp, i - 1) \o MatrixWords(mlp.layers[i].weights)
                                \o MatrixWords(mlp.layers[i].biases)

\* The weights and the biases of a network.
Parameters(mlp) ==
    [i \in 0 .. mlp.depth |-> <<mlp.layers[i].weights, mlp.layers[i].biases>>]

\* Same depth and same shapes of weights and biases.
SameShape(m1, m2) ==
    /\ m1.depth = m2.depth
    /\ \A i \in 0 .. m1.depth :
          /\ m1.layers[i].weights.rows = m2.layers[i].weights.rows
          /\ m1.layers[i].weights.columns = m2.layers[i].weights.columns
          /\ m1.layers[i].biases.rows = m2.layers[i].biases.rows
          /\ m1.layers[i].biases.columns = m2.layers[i].biases.columns

\* The agent and the agent the file was saved from have the same architecture.
SameArchitecture == saved.whole /\ SameShape(ddpg.actor, saved.actor)
                                /\ SameShape(ddpg.critic, saved.critic)

\* The load gave the agent the parameters saved.
LoadedAsSaved ==
    /\ call'.ret = 0
    /\ Parameters(ddpg'.actor) = Parameters(saved.actor)
    /\ Parameters(ddpg'.critic) = Parameters(saved.critic)

\* C10: once ddpg_save_policy returned 0, a ddpg_load_policy that reads that
\* file (its fopen and the calls of malloc in matrix_read succeed) into an
\* agent of the same architecture returns 0 and leaves the weights and biases
\* of its actor and critic equal to those saved; the file holds the block of
\* the actor then that of the critic, each the weights and the biases of the
\* layers 0 .. depth in turn.
C10_RoundTrip ==
    /\ [](saved.whole => file.words = BlockWords(saved.actor, saved.actor.depth)
                                      \o BlockWords(saved.critic, saved.critic.depth))
    /\ [][ (call'.op = "ddpg_load_policy" /\ SameArchitecture
            /\ call'.opens /\ call'.failAt = 0) => LoadedAsSaved ]_vars

\* C10's case: a policy loaded into another agent of the same architecture,
\* whose parameters it changed.
C10_Witness ==
    /\ call.op = "ddpg_load_policy"
    /\ call.ret = 0
    /\ call.changed
    /\ saved.whole
    /\ Parameters(ddpg.actor) = Parameters(saved.actor)
    /\ Parameters(ddpg.critic) = Parameters(saved.critic)
    /\ ddpg.actor.depth > 0

\* C11: ddpg_load_policy returns 0 only for a file that was written whole by
\* an agent whose actor and critic have as many layers as those of the loading
\* agent, with weights and biases of the same shapes.
C11_LoadOnlySameArchitecture ==
    [][ (call'.op = "ddpg_load_policy" /\ call'.ret = 0) => SameArchitecture ]_vars

\* ------------------------------------------------------------------------
\* The heap (ddpg_create, ddpg_destroy)

\* C12: when a call of malloc fails inside ddpg_create, the creator returns a
\* null handle, and it neither reads nor writes through the pointer that call
\* returned.
C12_FailedAllocationGivesNull ==
    (call.op = "ddpg_create" /\ call.failAt > 0) =>
        (call.ret = "NULL" /\ ~call.through)

\* C13: ddpg_destroy frees every buffer ddpg_create allocated exactly once,
\* whatever ran in between and whether there was noise or not: afterwards no
\* buffer is left allocated, none was freed twice, and those freed are the
\* ones the creator allocated.
C13_DestroyFreesAllOnce ==
    call.op = "ddpg_destroy" =>
        /\ heap.live = {}
        /\ heap.twice = {}
        /\ heap.freed = call.allocated
        /\ call.allocated = Allocated(ddpg)

\* An agent without noise is destroyed after it was trained.
C13_Witness ==
    /\ call.op = "ddpg_destroy"
    /\ ddpg.noise.null
    /\ ddpg.memoryUsed >= ddpg.batchSize
    /\ ddpg.criticAdam.t # 0

\* The functions of training and of inference.
TrainingCalls ==
    { "ddpg_action", "ddpg_observe", "ddpg_train", "ddpg_update_target_networks",
      "ddpg_new_episode", "mlp_sgd" }

\* C14: a call of training or of inference leaves the allocated buffers and
\* the rows and columns of every matrix as they were.
C14_NoAllocationInTraining ==
    [][ call'.op \in TrainingCalls =>
            (heap' = heap /\ Shapes(ddpg') = Shapes(ddpg)) ]_vars

\* A batch was trained on.
C14_Witness ==
    /\ call.op = "ddpg_train"
    /\ ddpg.criticAdam.t # 0
    /\ heap.live # {}

\* ------------------------------------------------------------------------
\* random.c

\* The value deepc_random_double drew for the noise of action i in the last
\* call of ddpg_action.
NoiseDrawn(i) ==
    deepc_random_double(FNeg(ddpg.noise.data[i]), ddpg.noise.data[i], call.rnd[i])

\* C19: deepc_random_double(min, max) with min < max returns a value r with
\* min <= r < max whatever rand() returns; it never returns max.
C19_RandomDoubleHalfOpen ==
    (call.op = "ddpg_action" /\ ~ddpg.noise.null) =>
        \A i \in 0 .. (ddpg.actionSize - 1) :
            /\ FLt(FNeg(ddpg.noise.data[i]), ddpg.noise.data[i])
            /\ FGe(NoiseDrawn(i), FNeg(ddpg.noise.data[i]))
            /\ FLt(NoiseDrawn(i), ddpg.noise.data[i])

\* ------------------------------------------------------------------------
\* The network on its own (mlp_feedforward, mlp_backpropagate)

AllZero(matrix) == \A i \in Cells(matrix) : matrix.data[i] = 0

RECURSIVE SampleOutput(_, _, _, _)
SampleOutput(mlp, x, i, b) ==
    LET layer == mlp.layers[i]
        prev == IF i = 0 THEN [k \in 0 .. (x.columns - 1) |-> x.data[b * x.columns + k]]
                ELSE SampleOutput(mlp, x, i - 1, b)
    IN  [j \in 0 .. (layer.weights.rows - 1) |->
            getActivationFunction(layer.activation,
                FAdd(SumTerms([k \in 0 .. (layer.weights.columns - 1) |->
                                  FMul(layer.weights.data[j * layer.weights.columns + k],
                                       prev[k])],
                              layer.weights.columns),
                     layer.biases.data[j * layer.biases.columns + b]))]

\* C16: mlp_feedforward(x) returns the output matrix of the network, batch
\* rows by output size, whose row b is what the layers 0..depth make of row b
\* of x alone; it keeps the transposed input and the output of every layer.
C16_FeedforwardBySample ==
    call.op = "mlp_feedforward" =>
        LET mlp == ddpg.critic
            x == call.x
            last == mlp.layers[mlp.depth]
        IN  /\ call.ret = mlp.output
            /\ Shape(mlp.output) = <<x.rows, last.weights.rows>>
            /\ \A b \in 0 .. (x.rows - 1) :
                   /\ \A j \in 0 .. (last.weights.rows - 1) :
                          mlp.output.data[b * mlp.output.columns + j]
                              = SampleOutput(mlp, x, mlp.depth, b)[j]
                   /\ \A i \in 0 .. mlp.depth :
                      \A j \in 0 .. (mlp.layers[i].weights.rows - 1) :
                          mlp.layers[i].output.data[j * mlp.layers[i].output.columns + b]
                              = SampleOutput(mlp, x, i, b)[j]
                   /\ \A c \in 0 .. (x.columns - 1) :
                          mlp.input.data[c * mlp.input.columns + b]
                              = x.data[b * x.columns + c]

\* A batch with two different rows went through a hidden layer, and the two
\* rows of the output differ.
C16_Witness ==
    /\ call.op = "mlp_feedforward"
    /\ ddpg.critic.depth = 1
    /\ call.ret.data[0] # call.ret.data[1]
    /\ call.ret.data[0] # 0

\* ------------------------------------------------------------------------
\* The optimizer on its own (adam_set, adam_reset, adam_optimize)

\* The place in hist of the last adam_reset, 0 if there was none.
LastReset(h) ==
    LET resets == { n \in 1 .. Len(h) : h[n].op = "adam_reset" }
    IN  IF resets = {} THEN 0 ELSE CHOOSE n \in resets : \A m \in resets : m <= n

\* The calls of adam_optimize since the last adam_reset, or since adam_create.
SinceReset(h) == SubSeq(h, LastReset(h) + 1, Len(h))

\* beta * beta * ... * beta, n factors, multiplied one after the other.
RECURSIVE Power(_, _)
Power(beta, n) == IF n <= 1 THEN beta ELSE FMul(Power(beta, n - 1), beta)

MomentsZero(adam) ==
    \A i \in 0 .. (adam.depth - 1) :
        AllZero(adam.mw[i]) /\ AllZero(adam.mb[i]) /\ AllZero(adam.vw[i]) /\ AllZero(adam.vb[i])

ColumnsEqual(matrix) ==
    \A i \in Cells(matrix) :
        matrix.data[i] = matrix.data[(i \div matrix.columns) * matrix.columns]

\* No call of adam_optimize divided by zero.
NoDivisionByZero ==
    \A n \in 1 .. Len(hist) : hist[n].op = "adam_optimize" => ~hist[n].byZero

\* C20: as long as no division by zero occurred, the biases and the gradBiases
\* of every layer, and the moments mb and vb, have all their columns equal.
C20_BiasColumnsEqual ==
    NoDivisionByZero =>
        \A i \in 0 .. ddpg.critic.depth :
            /\ ColumnsEqual(ddpg.critic.layers[i].biases)
            /\ ColumnsEqual(ddpg.critic.layers[i].gradBiases)
            /\ ColumnsEqual(ddpg.criticAdam.mb[i])
            /\ ColumnsEqual(ddpg.criticAdam.vb[i])

\* The biases were moved by adam_optimize and then by mlp_sgd_clip, and no
\* division by zero occurred.
C20_Witness ==
    /\ call.op = "mlp_sgd_clip"
    /\ NoDivisionByZero
    /\ Len(hist) > 0
    /\ ~AllZero(ddpg.critic.layers[ddpg.critic.depth].biases)
    /\ ~AllZero(ddpg.criticAdam.vb[ddpg.critic.depth])

\* ------------------------------------------------------------------------
\* The divisions of adam_optimize

\* The calls of adam_optimize since the last adam_reset all had a zero
\* gradient for element k of the biases of layer i.
ZeroSinceReset(i, k) ==
    \A n \in (LastReset(hist) + 1) .. Len(hist) :
        hist[n].op = "adam_optimize" => hist[n].gradBiases[i][k] = 0

\* (1 - beta2) * g * g, what the gradient g adds to a second moment.
SquareTerm(adam, g) == FMulExact(FMulExact(FSub(FInt(1), adam.beta2), g), g)

\* No weight of layer i was divided by zero in the last call of adam_optimize.
WeightsNotByZero(i) ==
    \A k \in DOMAIN call.weightDivisors[i] : call.weightDivisors[i][k] # 0

\* C18 as stated: adam_optimize divides by zero on a bias element exactly when
\* its second moment vb is zero after the update, which is so if and only if
\* its gradient was zero in every call of adam_optimize since the last reset;
\* a gradient that is not zero in this step means no division by zero; and no
\* weight is divided by zero.
C18_DivisionByZeroIffZeroGradients ==
    call.op = "adam_optimize" =>
        \A i \in 0 .. ddpg.critic.depth :
            /\ \A k \in DOMAIN call.biasDivisors[i] :
                  LET vb == ddpg.criticAdam.vb[i].data[k]
                      g == hist[Len(hist)].gradBiases[i][k]
                  IN  /\ (call.biasDivisors[i][k] = 0) <=> (vb = 0)
                      /\ (vb = 0) <=> ZeroSinceReset(i, k)
                      /\ g # 0 => call.biasDivisors[i][k] # 0
            /\ WeightsNotByZero(i)

\* C18, amended: adam_optimize divides by zero on a bias element exactly when
\* its second moment vb is zero after the update; vb is zero if its gradient
\* was zero in every call of adam_optimize since the last reset; a gradient g
\* of this step whose (1 - beta2) * g * g is not zero means no division by
\* zero; and no weight is divided by zero.
C18_DivisionByZeroIffMomentZero ==
    call.op = "adam_optimize" =>
        \A i \in 0 .. ddpg.critic.depth :
            /\ \A k \in DOMAIN call.biasDivisors[i] :
                  LET vb == ddpg.criticAdam.vb[i].data[k]
                      g == hist[Len(hist)].gradBiases[i][k]
                  IN  /\ (call.biasDivisors[i][k] = 0) <=> (vb = 0)
                      /\ ZeroSinceReset(i, k) => vb = 0
                      /\ SquareTerm(ddpg.criticAdam, g) # 0 =>
                             call.biasDivisors[i][k] # 0
            /\ WeightsNotByZero(i)

\* adam_optimize divided by zero on a bias of the output layer whose gradient
\* was tiny, which left the bias infinite, and divided no weight by zero.
C18_Witness ==
    /\ call.op = "adam_optimize"
    /\ ddpg.critic.depth = 1
    /\ IsTiny(hist[Len(hist)].gradBiases[1][0])
    /\ call.biasDivisors[1][0] = 0
    /\ ddpg.critic.layers[1].biases.data[0] \in {PInf, NInf}
    /\ WeightsNotByZero(1)

\* ------------------------------------------------------------------------
\* The errors of the critic (ddpg_train, lines 206-242)

\* The transition ddpg_observe recorded last in row r of the memory.
RowRecord(r) ==
    hist[CHOOSE j \in 1 .. Len(hist) :
            /\ hist[j].row = r
            /\ \A m \in (j + 1) .. Len(hist) : hist[m].row # r]

\* The batch whose row i is the vector rowOf[i] of n doubles.
BatchOf(rowOf, B, n) ==
    [rows |-> B, columns |-> n,
     data |-> [k \in 0 .. (B * n - 1) |-> rowOf[k \div n][k % n]]]

\* The vector (a | s) of the A doubles of a, then the S doubles of s.
Joined(a, A, s, S) == [c \in 0 .. (A + S - 1) |-> IF c < A THEN a[c] ELSE s[c - A]]

\* Row i of a matrix of n columns.
RowOf(matrix, i) == [c \in 0 .. (matrix.columns - 1) |-> matrix.data[i * matrix.columns + c]]

\* The critic errors of an effective ddpg_train of agent d with the batch
\* rows, from the transitions recorded: Q - (reward + gamma * Qt), or Q for a
\* terminal transition.
ExpectedCriticErrors(d, rows, gamma) ==
    LET B == d.batchSize
        A == d.actionSize
        S == d.stateSize
        I == 0 .. (B - 1)
        t == [i \in I |-> RowRecord(rows[i])]
        Q == mlp_feedforward(d.critic,
                 BatchOf([i \in I |-> Joined(t[i].action, A, t[i].prevState, S)],
                         B, A + S)).output
        next == mlp_feedforward(d.actorTarget,
                    BatchOf([i \in I |-> t[i].state], B, S)).output
        Qt == mlp_feedforward(d.criticTarget,
                  BatchOf([i \in I |-> Joined(RowOf(next, i), A, t[i].state, S)],
                          B, A + S)).output
    IN  [i \in I |->
            IF t[i].terminal > 0 THEN Q.data[i]
            ELSE FSub(Q.data[i], FAdd(t[i].reward, FMul(gamma, Qt.data[i])))]

\* C21: an effective ddpg_train leaves in criticErrors[i], for the row r =
\* batchIndices[i], Q when the transition recorded in r is terminal and
\* Q - (reward + gamma * Qt) otherwise, Q being the output of the critic for
\* (action | prevState) of r and Qt the output of the target critic for
\* (actorTarget(nextState) | nextState) of r.
C21_CriticErrorsFromRecordedFields ==
    [][ (call'.op = "ddpg_train" /\ ddpg.memoryUsed >= ddpg.batchSize)
        => \A i \in 0 .. (ddpg.batchSize - 1) :
              ddpg'.criticErrors.data[MATRIX(ddpg'.criticErrors, i, 0)]
                 = ExpectedCriticErrors(ddpg, ddpg'.batchIndices, call'.gamma)[i] ]_vars

\* An effective ddpg_train whose batch holds a terminal transition and one
\* that is not, with different errors.
C21_Witness ==
    /\ call.op = "ddpg_train"
    /\ ddpg.actorAdam.t # 0
    /\ RowRecord(ddpg.batchIndices[0]).terminal > 0
    /\ RowRecord(ddpg.batchIndices[1]).terminal <= 0
    /\ ddpg.criticErrors.data[0] # ddpg.criticErrors.data[1]
    /\ IsFin(ddpg.criticErrors.data[0]) /\ IsFin(ddpg.criticErrors.data[1])

\* ------------------------------------------------------------------------
\* The update of the actor (ddpg_train, lines 172-204)

\* What mlp_backpropagate leaves in a network besides its parameters.
Gradients(mlp) ==
    [i \in 0 .. mlp.depth |->
        <<mlp.layers[i].output, mlp.layers[i].errors, mlp.layers[i].deltas,
          mlp.layers[i].gradWeights, mlp.layers[i].gradBiases>>]

\* The actor pass of an effective ddpg_train that takes agent d to agent e
\* with the batch rows of e, from the transitions recorded: the actor is fed
\* the states, the critic (proposedActions | prevState), the critic is given
\* -1 for every sample, the actor the columns [0, A) of the input errors of
\* the critic, and what is left in the actor and in actorErrors is what that
\* pass and adam_optimize leave.
IsActorPass(d, e) ==
    LET B == d.batchSize
        A == d.actionSize
        S == d.stateSize
        I == 0 .. (B - 1)
    IN  \E t \in { [i \in I |-> RowRecord(e.batchIndices[i])] } :
        \E fed \in { mlp_feedforward(d.actor,
                         BatchOf([i \in I |-> t[i].prevState], B, S)) } :
        \E critic \in { mlp_feedforward(d.critic,
                            BatchOf([i \in I |-> Joined(RowOf(fed.output, i), A,
                                                        t[i].prevState, S)],
                                    B, A + S)) } :
        \E signal \in { BatchOf([i \in I |-> [c \in {0} |-> FInt(-1)]], B, 1) } :
        \E inputErrors \in { mlp_get_input_errors(
                                 mlp_backpropagate(critic, signal, LOSS_NONE)) } :
        \E errors \in { BatchOf([i \in I |-> [c \in 0 .. (A - 1) |->
                                                 RowOf(inputErrors, i)[c]]], B, A) } :
        \E actor \in { mlp_backpropagate(fed, errors, LOSS_NONE) } :
            /\ e.actorErrors = errors
            /\ e.actor.input = fed.input
            /\ e.actor.output = fed.output
            /\ \A i \in 0 .. d.actor.depth :
                  e.actor.layers[i].output = fed.layers[i].output
            /\ Gradients(e.actor) = Gradients(actor)
            /\ e.actor.inputErrors = actor.inputErrors
            /\ e.actor = adam_optimize(actor, d.actorAdam).mlp

\* C22: in an effective ddpg_train the actor is back-propagated with the
\* columns [0, A) of the input errors the critic has for the input
\* (proposedActions | prevState) and the error -1 of every sample, against the
\* layer outputs of the forward pass that proposed the actions; what it leaves
\* in the actor, and actorErrors, are those of that pass.
C22_ActorColumnsLineUp ==
    [][ (call'.op = "ddpg_train" /\ ddpg.memoryUsed >= ddpg.batchSize)
        => IsActorPass(ddpg, ddpg') ]_vars

\* An effective ddpg_train that gave the actor errors that are not zero and
\* differ between the samples, and gradients that are not zero.
C22_Witness ==
    /\ call.op = "ddpg_train"
    /\ ddpg.actorAdam.t # 0
    /\ ddpg.actorErrors.data[0] # 0
    /\ ddpg.actorErrors.data[0] # ddpg.actorErrors.data[1]
    /\ ~AllZero(ddpg.actor.layers[0].gradWeights)
    /\ ~AllZero(ddpg.actor.layers[ddpg.actor.depth].gradWeights)

\* ------------------------------------------------------------------------
\* The deltas of the output layer (mlp_backpropagate, lines 182-187)

\* What mlp_backpropagate computes from the deltas: the deltas of every layer,
\* the input errors and the gradients.
FromDeltas(mlp) ==
    <<mlp.inputErrors,
      [i \in 0 .. mlp.depth |->
          <<mlp.layers[i].deltas, mlp.layers[i].gradWeights, mlp.layers[i].gradBiases>>]>>

\* The targets and the loss codes mlp_backpropagate may be given.
BackpropagateArguments == MlpTargets \X {LOSS_NONE, LOSS_MSE}

Weights(mlp) ==
    [i \in 0 .. mlp.depth |-> <<mlp.layers[i].weights, mlp.layers[i].biases>>]

\* The gradient buffers of a network.
GradientBuffers(mlp) ==
    [i \in 0 .. mlp.depth |-> <<mlp.layers[i].gradWeights, mlp.layers[i].gradBiases>>]

\* The network with gradient buffers no one has written.
Unwritten(mlp) ==
    [mlp EXCEPT !.layers = [i \in 0 .. mlp.depth |->
        [mlp.layers[i] EXCEPT
            !.gradWeights.data = [k \in DOMAIN mlp.layers[i].gradWeights.data |-> Uninit],
            !.gradBiases.data = [k \in DOMAIN mlp.layers[i].gradBiases.data |-> Uninit]]]]

\* The critic and its optimizer are as in agent d.
CriticAsIn(d, e) == Weights(e.critic) = Weights(d.critic) /\ e.criticAdam = d.criticAdam

\* The statements of an effective ddpg_train, one after the other, take agent
\* d to agent e, and: the critic and criticAdam are those of d until the last
\* statement; the gradients the critic is given by the error -1 are replaced,
\* every one, by those of the errors of the Bellman equation; the actor has
\* the weights of d until adam_optimize(actor, actorAdam) and the weights of
\* e from there on, before the critic is fed the batch actions.
IsTrainInOrder(d, e, gamma, rnd) ==
    \E s1 \in { TrainSelect(d, rnd) } :
    \E s2 \in { TrainActorInput(s1) } :
    \E s3 \in { TrainProposedActions(s2) } :
    \E s4 \in { TrainProposedInput(s3) } :
    \E s5 \in { TrainProposedValue(s4) } :
    \E s6 \in { TrainNegativeGradient(s5) } :
    \E s7 \in { TrainCriticGradient(s6) } :
    \E s8 \in { TrainActorErrors(s7) } :
    \E s9 \in { TrainActorGradient(s8) } :
    \E s10 \in { TrainActorOptimize(s9) } :
    \E s11 \in { TrainCriticInput(s10) } :
    \E s12 \in { TrainCriticOutput(s11) } :
    \E s13 \in { TrainTargetActorInput(s12) } :
    \E s14 \in { TrainTargetActions(s13) } :
    \E s15 \in { TrainTargetCriticInput(s14) } :
    \E s16 \in { TrainTargetValue(s15) } :
    \E s17 \in { TrainBellman(s16, gamma) } :
    \E s18 \in { TrainCriticBackpropagate(s17) } :
    \E s19 \in { TrainCriticOptimize(s18) } :
        /\ e = s19
        /\ \A s \in { s1, s2, s3, s4, s5, s6, s7, s8, s9, s10, s11, s12, s13, s14,
                      s15, s16, s17, s18 } : CriticAsIn(d, s)
        /\ GradientBuffers(s7.critic) =
              GradientBuffers(mlp_backpropagate(Unwritten(s6.critic), s6.criticErrors,
                                                LOSS_NONE))
        /\ GradientBuffers(s18.critic) =
              GradientBuffers(mlp_backpropagate(Unwritten(s17.critic), s17.criticErrors,
                                                LOSS_NONE))
        /\ s19.critic = adam_optimize(s18.critic, d.criticAdam).mlp
        /\ s19.criticAdam = adam_optimize(s18.critic, d.criticAdam).adam
        /\ \A s \in { s1, s2, s3, s4, s5, s6, s7, s8, s9 } :
              Weights(s.actor) = Weights(d.actor) /\ s.actorAdam = d.actorAdam
        /\ \A s \in { s10, s11, s12, s13, s14, s15, s16, s17, s18, s19 } :
              Weights(s.actor) = Weights(e.actor) /\ s.actorAdam = e.actorAdam
        /\ e.actorAdam.t = d.actorAdam.t + 1

\* C24: in an effective ddpg_train the weights and the biases of the critic
\* and criticAdam are those at entry until the final adam_optimize(critic,
\* criticAdam), which applies the gradients of the errors of the Bellman
\* equation, every gradient of the error -1 being overwritten before; the
\* weights of the actor change once, in adam_optimize(actor, actorAdam), before
\* the critic is fed the batch actions.
C24_CriticUnchangedUntilOptimize ==
    [][ (call'.op = "ddpg_train" /\ ddpg.memoryUsed >= ddpg.batchSize)
        => IsTrainInOrder(ddpg, ddpg', call'.gamma, call'.rnd) ]_vars

\* An effective ddpg_train that moved the critic and the actor, the moments of
\* the critic being those of the gradients it is left with.
C24_Witness ==
    /\ call.op = "ddpg_train"
    /\ ddpg.criticAdam.t = 1
    /\ ddpg.actorAdam.t = 1
    /\ Weights(ddpg.critic) # Weights(ddpg.criticTarget)
    /\ Weights(ddpg.actor) # Weights(ddpg.actorTarget)
    /\ ~AllZero(ddpg.critic.layers[0].gradWeights)
    /\ \A i \in 0 .. ddpg.critic.depth :
          ddpg.criticAdam.mw[i].data =
             [k \in DOMAIN ddpg.criticAdam.mw[i].data |->
                 AdamFirstMoment(ddpg.criticAdam, 0,
                                 ddpg.critic.layers[i].gradWeights.data[k])]

\* ------------------------------------------------------------------------
\* The steps of the optimizers (ddpg_train, adam_optimize, ddpg_observe)

\* The calls of ddpg_train made so far while memoryUsed >= batchSize, in a run
\* of every operation on one agent.
EffectiveTrains == AllTrain - budget.train

\* C25: actorAdam.t and criticAdam.t are the number of calls of ddpg_train
\* made while memoryUsed >= batchSize; memoryUsed never decreases, so that a
\* ddpg_train after an effective one is effective; and with memorySize <
\* batchSize no ddpg_train changes the agent.
C25_AdamCountsEffectiveTrains ==
    /\ [](ddpg.actorAdam.t = EffectiveTrains /\ ddpg.criticAdam.t = EffectiveTrains)
    /\ [][ /\ ddpg'.memoryUsed >= ddpg.memoryUsed
           /\ (call'.op = "ddpg_train" /\ ddpg.actorAdam.t > 0)
                 => /\ ddpg.memoryUsed >= ddpg.batchSize
                    /\ ddpg'.actorAdam.t = ddpg.actorAdam.t + 1
           /\ (call'.op = "ddpg_train" /\ ddpg.memorySize < ddpg.batchSize)
                 => ddpg' = ddpg ]_vars

\* The second effective ddpg_train, in a run that made another call too.
C25_Witness ==
    /\ call.op = "ddpg_train"
    /\ ddpg.actorAdam.t = 2
    /\ ddpg.criticAdam.t = 2
    /\ budget.other < AllOther
    /\ ddpg.memoryUsed = 2

\* ------------------------------------------------------------------------
\* The target networks (mlp_clone, ddpg_update_target_networks)

\* What a network holds besides its weights, its biases and the scratch
\* mlp_feedforward writes: the errors, the deltas and the gradients.
BackwardBuffers(mlp) ==
    <<mlp.inputErrors,
      [i \in 0 .. mlp.depth |->
          <<mlp.layers[i].errors, mlp.layers[i].deltas,
            mlp.layers[i].gradWeights, mlp.layers[i].gradBiases>>]>>

\* C26: the weights and the biases of actorTarget and criticTarget change
\* only in ddpg_update_target_networks; ddpg_train, which writes only the
\* input and the outputs of the targets, ddpg_action, ddpg_observe,
\* ddpg_new_episode, ddpg_save_policy and ddpg_load_policy leave them as they
\* are.
C26_TargetsChangeOnlyInUpdate ==
    [][ /\ call'.op \in {"ddpg_train", "ddpg_action", "ddpg_observe", "ddpg_new_episode",
                         "ddpg_save_policy", "ddpg_load_policy"}
            => /\ Weights(ddpg'.actorTarget) = Weights(ddpg.actorTarget)
               /\ Weights(ddpg'.criticTarget) = Weights(ddpg.criticTarget)
               /\ BackwardBuffers(ddpg'.actorTarget) = BackwardBuffers(ddpg.actorTarget)
               /\ BackwardBuffers(ddpg'.criticTarget) = BackwardBuffers(ddpg.criticTarget)
               /\ call'.op # "ddpg_train" =>
                     /\ ddpg'.actorTarget = ddpg.actorTarget
                     /\ ddpg'.criticTarget = ddpg.criticTarget
        /\ call'.op = "ddpg_update_target_networks"
            => /\ Weights(ddpg'.actorTarget) = Weights(ddpg.actor)
               /\ Weights(ddpg'.criticTarget) = Weights(ddpg.critic) ]_vars

\* After two effective calls of ddpg_train and another call the targets
\* differ from the networks they were cloned from, and were fed a batch.
C26_Witness ==
    /\ call.op = "ddpg_train"
    /\ ddpg.actorAdam.t = 2
    /\ budget.other < AllOther
    /\ Weights(ddpg.actorTarget) # Weights(ddpg.actor)
    /\ Weights(ddpg.criticTarget) # Weights(ddpg.critic)
    /\ ~AllZero(ddpg.actorTarget.input)
    /\ ~AllZero(ddpg.criticTarget.output)

\* ------------------------------------------------------------------------
\* What each operation leaves alone

\* The replay memory and the last state of the agent.
Replay(d) == <<d.memory, d.memoryUsed, d.memoryIdx, d.lastState>>

\* The four networks, the two Adam states and the action buffer.
Learned(d) ==
    <<d.actor, d.critic, d.actorTarget, d.criticTarget, d.actorAdam, d.criticAdam, d.action>>

\* C27: the memory, memoryUsed, memoryIdx and lastState are changed by
\* ddpg_observe alone: ddpg_train, effective or not, ddpg_action,
\* ddpg_update_target_networks, ddpg_new_episode, ddpg_save_policy and
\* ddpg_load_policy leave them unchanged; ddpg_observe and ddpg_new_episode
\* leave the four networks, both Adam states and the action buffer unchanged.
C27_ReplayChangedByObserveOnly ==
    [][ /\ call'.op \in {"ddpg_train", "ddpg_action", "ddpg_update_target_networks",
                         "ddpg_new_episode", "ddpg_save_policy", "ddpg_load_policy"}
            => Replay(ddpg') = Replay(ddpg)
        /\ call'.op \in {"ddpg_observe", "ddpg_new_episode"}
            => Learned(ddpg') = Learned(ddpg)
        /\ Replay(ddpg') # Replay(ddpg) => call'.op = "ddpg_observe" ]_vars

\* ddpg_new_episode has just been called on an agent that recorded two
\* transitions, was trained, asked for an action and had its targets updated.
C27_Witness ==
    /\ call.op = "ddpg_new_episode"
    /\ ddpg.lastStateValid = 0
    /\ ddpg.memoryUsed = 2
    /\ ddpg.actorAdam.t = 1
    /\ budget.other = 0
    /\ ~AllZero(ddpg.actor.input)
    /\ Weights(ddpg.actorTarget) = Weights(ddpg.actor)
    /\ ~AllZero(ddpg.actorAdam.mb[ddpg.actor.depth])

\* ------------------------------------------------------------------------
\* lastStateValid

\* The first stateSize cells of a buffer or of a row: a state.
StateIn(buffer, d) == [c \in 0 .. (d.stateSize - 1) |-> buffer[c]]

\* C28: lastStateValid is 0 only after ddpg_create or ddpg_new_episode and
\* before the next ddpg_observe; every ddpg_observe leaves it 1 and no other
\* operation clears it.  A ddpg_observe with terminal > 0 does not invalidate
\* lastState: without a ddpg_new_episode in between, the next ddpg_observe
\* records a transition whose prevState is the terminal state.
C28_LastStateValidUntilNewEpisode ==
    /\ [](/\ ddpg.lastStateValid \in {0, 1}
          /\ ddpg.lastStateValid = 0 <=> ~prevObs.some
          /\ ddpg.lastStateValid = 0 => call.op # "ddpg_observe"
          /\ prevObs.some => StateIn(ddpg.lastState, ddpg) = prevObs.state)
    /\ [][ /\ call'.op = "ddpg_observe" => ddpg'.lastStateValid = 1
           /\ call'.op = "ddpg_new_episode" => ddpg'.lastStateValid = 0
           /\ call'.op \notin {"ddpg_observe", "ddpg_new_episode"}
                => /\ ddpg'.lastStateValid = ddpg.lastStateValid
                   /\ ddpg'.lastState = ddpg.lastState
           /\ (call'.op = "ddpg_observe" /\ call'.terminal > 0)
                => StateIn(ddpg'.lastState, ddpg) = call'.state
           /\ (call'.op = "ddpg_observe" /\ prevObs.some)
                => /\ call'.recording
                   /\ hist'[Len(hist')].prevState = prevObs.state
                   /\ StateIn(MemoryRow(ddpg', ddpg.memoryIdx), ddpg) = prevObs.state ]_vars

\* A transition was recorded whose previous state is the state of the
\* terminal transition recorded before it, with calls of other operations
\* but no ddpg_new_episode in between.
C28_Witness ==
    /\ call.op = "ddpg_observe"
    /\ call.recording
    /\ Len(hist) = 2
    /\ hist[1].terminal > 0
    /\ hist[2].state # hist[1].state
    /\ budget.other < AllOther
    /\ StateIn(MemoryRow(ddpg, hist[2].row), ddpg) = hist[1].state

\* ------------------------------------------------------------------------
\* ddpg_action without noise

\* A matrix of the same shape with v in every cell.
Filled(matrix, v) == [matrix EXCEPT !.data = [i \in DOMAIN matrix.data |-> v]]

\* A network of the same shape with v in every cell, the weights and the
\* biases too unless they are kept.
FilledMlp(mlp, v, keep) ==
    [mlp EXCEPT
        !.input = Filled(mlp.input, v),
        !.inputErrors = Filled(mlp.inputErrors, v),
        !.output = Filled(mlp.output, v),
        !.layers = [i \in DOMAIN mlp.layers |->
            [mlp.layers[i] EXCEPT
                !.weights = IF keep THEN mlp.layers[i].weights
                            ELSE Filled(mlp.layers[i].weights, v),
                !.biases = IF keep THEN mlp.layers[i].biases
                           ELSE Filled(mlp.layers[i].biases, v),
                !.output = Filled(mlp.layers[i].output, v),
                !.errors = Filled(mlp.layers[i].errors, v),
                !.deltas = Filled(mlp.layers[i].deltas, v),
                !.gradWeights = Filled(mlp.layers[i].gradWeights, v),
                !.gradBiases = Filled(mlp.layers[i].gradBiases, v)]]]

\* An Adam state of the same shape after other steps, with v in every cell.
FilledAdam(adam, v) ==
    [adam EXCEPT
        !.t = adam.t + 1,
        !.beta1t = v,
        !.beta2t = v,
        !.mw = [i \in DOMAIN adam.mw |-> Filled(adam.mw[i], v)],
        !.mb = [i \in DOMAIN adam.mb |-> Filled(adam.mb[i], v)],
        !.vw = [i \in DOMAIN adam.vw |-> Filled(adam.vw[i], v)],
        !.vb = [i \in DOMAIN adam.vb |-> Filled(adam.vb[i], v)]]

\* Another agent of the architecture of d whose actor has the weights and the
\* biases of the actor of d and that has v wherever else it holds a number:
\* in the scratch of the actor, the critic, the targets, the Adam states, the
\* memory, the last state, the batch buffers and the action buffer.
OtherAgent(d, v) ==
    [d EXCEPT
        !.actor = FilledMlp(d.actor, v, TRUE),
        !.critic = FilledMlp(d.critic, v, FALSE),
        !.actorTarget = FilledMlp(d.actorTarget, v, FALSE),
        !.criticTarget = FilledMlp(d.criticTarget, v, FALSE),
        !.actorAdam = FilledAdam(d.actorAdam, v),
        !.criticAdam = FilledAdam(d.criticAdam, v),
        !.actorInput = Filled(d.actorInput, v),
        !.criticInput = Filled(d.criticInput, v),
        !.actorErrors = Filled(d.actorErrors, v),
        !.criticErrors = Filled(d.criticErrors, v),
        !.memory = Filled(d.memory, v),
        !.memoryUsed = IF d.memoryUsed = 0 THEN d.memorySize ELSE 0,
        !.memoryIdx = (d.memoryIdx + 1) % d.memorySize,
        !.lastState = [i \in DOMAIN d.lastState |-> v],
        !.lastStateValid = 1 - d.lastStateValid,
        !.action = [i \in DOMAIN d.action |-> v]]

\* What the other agents hold where the agent holds something else.
OtherValues == { NaN, FInt(3) }

\* The agent but for what ddpg_action may write: actorInput, the input and
\* the outputs of the actor, and the action buffer.
ButActionScratch(d) ==
    [d EXCEPT
        !.actorInput = Filled(d.actorInput, 0),
        !.action = [i \in DOMAIN d.action |-> 0],
        !.actor = [d.actor EXCEPT
            !.input = Filled(d.actor.input, 0),
            !.output = Filled(d.actor.output, 0),
            !.layers = [i \in DOMAIN d.actor.layers |->
                [d.actor.layers[i] EXCEPT !.output = Filled(d.actor.layers[i].output, 0)]]]]

\* C29: with the noise disabled ddpg_action is a function of the state and
\* of the weights and the biases of the actor alone: another agent of the
\* same architecture with the same actor weights and biases returns the same
\* action for the same state, whatever its memory, targets, critic, Adam
\* states, lastState and scratch buffers hold, and whatever rand() returns.
\* actorInput is cleared but for the state in row 0, and ddpg_action changes
\* only actorInput, the input and the outputs of the actor and the action
\* buffer.
C29_ActionDeterminedByStateAndActor ==
    [][ call'.op = "ddpg_action" =>
          /\ ButActionScratch(ddpg') = ButActionScratch(ddpg)
          /\ \A c \in Cells(ddpg'.actorInput) :
                ddpg'.actorInput.data[c] =
                    IF c < ddpg.stateSize THEN call'.state[c] ELSE 0
          /\ ddpg.noise.null =>
                \A v \in OtherValues :
                \A other \in { ddpg_action([OtherAgent(ddpg, v) EXCEPT !.noise = NULL],
                                           call'.state,
                                           [i \in DOMAIN call'.rnd |-> 0]) } :
                    /\ call'.ret = ddpg'.action
                    /\ \A i \in 0 .. (ddpg.actionSize - 1) : other.action[i] = call'.ret[i]
                    /\ other.actor.output = ddpg'.actor.output ]_vars

\* ddpg_action has answered for an agent without noise that was trained
\* before, so that its scratch buffers held a batch.
C29_Witness ==
    /\ call.op = "ddpg_action"
    /\ ddpg.noise.null
    /\ ddpg.actorAdam.t = 1
    /\ ddpg.memoryUsed = 2
    /\ ~AllZero(ddpg.criticInput)
    /\ \E i \in 0 .. (ddpg.actionSize - 1) : ddpg.action[i] \notin {0, NaN}

\* ------------------------------------------------------------------------
\* A load that fails (mlp_read_weights, ddpg_load_policy)

\* The matrices a stream holds whole, one after the other, up to the first
\* that is missing or short.
RECURSIVE FileMatrices(_)
FileMatrices(stream) ==
    LET r == matrix_read(stream, TRUE)
    IN  IF DOMAIN r.matrix.data = {} THEN <<>>
        ELSE <<r.matrix>> \o FileMatrices(r.stream)

\* The weights and the biases of a network in the order of the file.
InFileOrder(mlp) ==
    [j \in 1 .. (2 * (mlp.depth + 1)) |->
        IF j % 2 = 1 THEN mlp.layers[(j - 1) \div 2].weights
        ELSE mlp.layers[(j - 1) \div 2].biases]

\* Those of the actor, then those of the critic.
PolicyMatrices(d) == InFileOrder(d.actor) \o InFileOrder(d.critic)

\* The first matrix of the agent the load fails at: the file holds no such
\* matrix whole, or one of another shape, or malloc fails in that call of
\* matrix_read; one more than the number of matrices if there is none.
FailingMatrix(own, inFile, failAt) ==
    LET fails(j) == \/ j > Len(inFile)
                    \/ inFile[j].rows # own[j].rows
                    \/ inFile[j].columns # own[j].columns
                    \/ failAt = j
        failing == { j \in 1 .. Len(own) : fails(j) }
    IN  IF failing = {} THEN Len(own) + 1
        ELSE CHOOSE j \in failing : \A m \in failing : j <= m

\* The agent with the weights and the biases of the actor and the critic of
\* another.
WithParametersOf(d, e) ==
    [d EXCEPT !.actor = mlp_copy_parameters(d.actor, e.actor),
              !.critic = mlp_copy_parameters(d.critic, e.critic)]

\* C30: a load that fails is not undone.  When ddpg_load_policy returns -1
\* the weights and biases that precede the failing matrix in the order of the
\* file (the layers 0 .. depth of the actor, then those of the critic) hold
\* the values of the file, the failing one and the later ones hold what they
\* held, and nothing else in the agent changes; the agent is sure to be as it
\* was only when the file does not open or the first matrix fails.
C30_FailingLoadNotAtomic ==
    [][ call'.op = "ddpg_load_policy" =>
          /\ ~call'.opens => (call'.ret = -1 /\ ddpg' = ddpg)
          /\ call'.opens =>
                \A own \in { PolicyMatrices(ddpg) } :
                \A inFile \in { FileMatrices([words |-> file.words, pos |-> 0]) } :
                \A k \in { FailingMatrix(own, inFile, call'.failAt) } :
                \A now \in { PolicyMatrices(ddpg') } :
                    /\ call'.ret = IF k <= Len(own) THEN -1 ELSE 0
                    /\ \A j \in 1 .. Len(own) :
                          /\ now[j].rows = own[j].rows
                          /\ now[j].columns = own[j].columns
                          /\ now[j].data = IF j < k THEN inFile[j].data ELSE own[j].data
                    /\ WithParametersOf(ddpg', ddpg) = ddpg
                    /\ k = 1 => ddpg' = ddpg ]_vars

\* ddpg_load_policy has returned -1 at a matrix of the critic, after it gave
\* the actor the weights and the biases of the file.
C30_Witness ==
    /\ call.op = "ddpg_load_policy"
    /\ call.opens
    /\ call.ret = -1
    /\ call.changed
    /\ call.failAt = 0
    /\ Parameters(ddpg.actor) = Parameters(saved.actor)
    /\ Parameters(ddpg.critic) # Parameters(saved.critic)

====
